---- MODULE Spec2Model ----
(***************************************************************************)
(* QrcClient of src/src/extension.ts: a JSON-RPC client over one TCP       *)
(* socket.  Bytes are naturals 0..255, strings are sequences of UTF-16     *)
(* code units, buffers are sequences of bytes.  Node runs every promise    *)
(* continuation (microtask) before the next socket event, so socket events *)
(* ('data', 'error', the connect callback, the peer closing) fire only     *)
(* when no processRawBuffer call is suspended at its await; the client's   *)
(* own methods (sendCommand, connect, disconnect) are called from promise  *)
(* continuations of its callers and so may run between two steps of a      *)
(* suspended scan.                                                         *)
(***************************************************************************)
EXTENDS Integers, Sequences, FiniteSets, TLC

VARIABLES
    sockets,            \* the net.Socket objects connect() has created, in creation order
    socket,             \* this.socket: Null or an index into sockets
    responseCallbacks,  \* this.responseCallbacks: id -> index into calls
    messageId,          \* this.messageId
    calls,              \* the promises sendCommand has returned with an id, in issue order
    writes,             \* the data handed to socket.write, in order
    scan,               \* the processRawBuffer call suspended at its await, or Idle
    ev,                 \* what the last step did (observation only)
    input,              \* FramerSpec: the byte sequence the peer sends
    stream,             \* FramerSpec: the part of input not yet received
    emitted,            \* FramerSpec: the frames handed to processMessage so far
    wire,               \* SessionSpec: the socket each write went to, in order
    deploy,             \* DeploySpec: the run of deployScript that owns the client
    host                \* the editor side: settings, the saved document, the command's run

vars == <<sockets, socket, responseCallbacks, messageId, calls, writes, scan, ev,
          input, stream, emitted, wire, deploy, host>>

\* ------------------------------------------------------------------ bounds

MaxCalls == 2       \* sendCommand calls that get an id
MaxConn == 2        \* connect() calls
MaxLen == 5         \* length of the byte sequences of FramerSpec
MaxList == 2        \* components in a Component.GetComponents result

\* --------------------------------------------------------------- constants

NUL == 0
LF == 10
Null == 0
Idle == [sock |-> 0, rest |-> <<>>]

\* ------------------------------------------------------------ JSON values
\* A JavaScript value that JSON.parse can give, and undefined

Undefined == [type |-> "undefined"]
JsonNull == [type |-> "null"]
Number(n) == [type |-> "number", value |-> n]
String(str) == [type |-> "string", chars |-> str]
Array(items) == [type |-> "array", items |-> items]
Object(fields) == [type |-> "object", fields |-> fields]

\* new Error(message)
Error(message) == [type |-> "error", message |-> message]

\* what the client finds in response.error: no such field, null, an object
NoError == "undefined"

\* ------------------------------------------------------------ wire texts

IdOpen == <<123,34,105,100,34,58>>                      \* {"id":
ResultTail == <<44,34,114,101,115,117,108,116,34,58,55,125>>   \* ,"result":7}
ErrorMsgTail == <<44,34,101,114,114,111,114,34,58,123,34,109,101,115,115,97,103,101,34,58,34,69,34,125,125>>   \* ,"error":{"message":"E"}}
ErrorBareTail == <<44,34,101,114,114,111,114,34,58,123,125,125>>   \* ,"error":{}}
ErrorNullTail == <<44,34,101,114,114,111,114,34,58,110,117,108,108,44,34,114,101,115,117,108,116,34,58,55,125>>   \* ,"error":null,"result":7}
NotifyText == <<123,34,109,101,116,104,111,100,34,58,34,83,34,125>>   \* {"method":"S"}
EmptyMethodText == <<123,34,109,101,116,104,111,100,34,58,34,34,125>>   \* {"method":""}
NotifyIdOpen == <<123,34,109,101,116,104,111,100,34,58,34,83,34,44,34,105,100,34,58>>   \* {"method":"S","id":
CloseBrace == <<125>>                                   \* }
ArrayText == <<91,93>>                                  \* []
BadText == <<123,93>>                                   \* {]
PlainText == <<79,75>>                                  \* OK
TextA == <<123,34,97,34,58,49,125>>                     \* {"a":1}
TextB == <<123,34,98,34,58,50,125>>                     \* {"b":2}
TextC == <<123,34,99,34,58,51,125>>                     \* {"c":3}
RequestOpen == <<123,34,106,115,111,110,114,112,99,34,58,34,50,46,48,34,44,34,109,101,116,104,111,100,34,58,34>>   \* {"jsonrpc":"2.0","method":"
RequestMid == <<34,44,34,112,97,114,97,109,115,34,58>>   \* ","params":
RequestId == <<44,34,105,100,34,58>>                    \* ,"id":
ResultKey == <<44,34,114,101,115,117,108,116,34,58>>   \* ,"result":
NullText == <<110,117,108,108>>   \* null
OpenBracket == <<91>>   \* [
CloseBracket == <<93>>   \* ]
Comma == <<44>>   \* ,
Quote == <<34>>   \* "
NameKey == <<123,34,78,97,109,101,34,58>>   \* {"Name":
IdKey == <<44,34,73,68,34,58>>   \* ,"ID":
TypeKey == <<44,34,84,121,112,101,34,58>>   \* ,"Type":
ComponentsKey == <<123,34,67,111,109,112,111,110,101,110,116,115,34,58>>   \* {"Components":
ControlsKey == <<44,34,67,111,110,116,114,111,108,115,34,58,91,123,34,78,97,109,101,34,58,34,99,111,100,101,34,44,34,86,97,108,117,101,34,58>>   \* ,"Controls":[{"Name":"code","Value":
ControlsEnd == <<125,93,125>>   \* }]}
ValueKey == <<44,34,86,97,108,117,101,34,58>>   \* ,"Value":
ControlsField == <<123,34,67,111,110,116,114,111,108,115,34,58>>   \* {"Controls":
GetControls == <<44,34,67,111,110,116,114,111,108,115,34,58,91,34,99,111,100,101,34,93,125>>   \* ,"Controls":["code"]}
CodeName == <<99,111,100,101>>   \* code
ComponentGet == <<67,111,109,112,111,110,101,110,116,46,71,101,116>>   \* Component.Get
UserKey == <<123,34,85,115,101,114,34,58>>   \* {"User":
PasswordKey == <<44,34,80,97,115,115,119,111,114,100,34,58>>   \* ,"Password":
Logon == <<76,111,103,111,110>>   \* Logon
ComponentSet == <<67,111,109,112,111,110,101,110,116,46,83,101,116>>   \* Component.Set
DeviceControllerScript == <<100,101,118,105,99,101,95,99,111,110,116,114,111,108,108,101,114,95,115,99,114,105,112,116>>   \* device_controller_script
ControlScript2 == <<99,111,110,116,114,111,108,95,115,99,114,105,112,116,95,50>>   \* control_script_2
ScriptableControls == <<115,99,114,105,112,116,97,98,108,101,95,99,111,110,116,114,111,108,115>>   \* scriptable_controls
OtherType == <<111,116,104,101,114,95,116,121,112,101>>   \* other_type
GetComponents == <<67,111,109,112,111,110,101,110,116,46,71,101,116,67,111,109,112,111,110,101,110,116,115>>   \* Component.GetComponents

\* the decimal digits of a number, as JSON.stringify writes it
RECURSIVE Digit(_)
Digit(i) == IF i < 10 THEN <<48 + i>> ELSE Digit(i \div 10) \o <<48 + (i % 10)>>

ResultText(i) == IdOpen \o Digit(i) \o ResultTail
ErrorMsgText(i) == IdOpen \o Digit(i) \o ErrorMsgTail
ErrorBareText(i) == IdOpen \o Digit(i) \o ErrorBareTail
ErrorNullText(i) == IdOpen \o Digit(i) \o ErrorNullTail
NotifyIdText(i) == NotifyIdOpen \o Digit(i) \o CloseBrace

Ids == 1..MaxCalls

\* ---------------------------------------------------------- JSON.stringify

\* mutant: the characters are written as they are
EscapedRaw(str) == str

\* the characters of a string as JSON.stringify writes them between the
\* quotes: \" \\ \n and \u0000 for the quote, the backslash, LF and NUL
RECURSIVE Escaped(_)
Escaped(str) ==
    IF str = <<>> THEN <<>>
    ELSE (IF Head(str) \in {34, 92} THEN <<92, Head(str)>>
          ELSE IF Head(str) = 10 THEN <<92, 110>>
          ELSE IF Head(str) = 0 THEN <<92, 117, 48, 48, 48, 48>>
          ELSE <<Head(str)>>) \o Escaped(Tail(str))

JSONString(str) == Quote \o Escaped(str) \o Quote

\* the JSON text of a value: numbers, strings, null, arrays, and the objects
\* {Name, ID, Type}, {Name, Value}, {Name}, {Components}, {Controls} and {}
RECURSIVE JSONstringify(_)
JSONstringify(value) ==
    LET RECURSIVE Joined(_)
        Joined(items) ==
            IF items = <<>> THEN <<>>
            ELSE IF Len(items) = 1 THEN JSONstringify(items[1])
            ELSE JSONstringify(items[1]) \o Comma \o Joined(Tail(items))
    IN  IF value.type = "number" THEN Digit(value.value)
        ELSE IF value.type = "string" THEN JSONString(value.chars)
        ELSE IF value.type = "null" THEN NullText
        ELSE IF value.type = "array"
          THEN OpenBracket \o Joined(value.items) \o CloseBracket
        ELSE IF "ID" \in DOMAIN value.fields
          THEN NameKey \o JSONstringify(value.fields.Name)
                   \o IdKey \o JSONstringify(value.fields.ID)
                   \o TypeKey \o JSONstringify(value.fields.Type) \o CloseBrace
        ELSE IF "Value" \in DOMAIN value.fields
          THEN NameKey \o JSONstringify(value.fields.Name)
                   \o ValueKey \o JSONstringify(value.fields.Value) \o CloseBrace
        ELSE IF "Name" \in DOMAIN value.fields
          THEN NameKey \o JSONstringify(value.fields.Name) \o CloseBrace
        ELSE IF "Components" \in DOMAIN value.fields
          THEN ComponentsKey \o JSONstringify(value.fields.Components) \o CloseBrace
        ELSE IF "Controls" \in DOMAIN value.fields
          THEN ControlsField \o JSONstringify(value.fields.Controls) \o CloseBrace
        ELSE <<123>> \o CloseBrace

\* ------------------------------------------------------------ JSON.parse

\* a parsed message, by the fields the client reads: id (0: none), error
\* (NoError, "null" or "object"), error.message ("" : none), result, method
\* ("" : none, or the empty string, which is as falsy)
Parsed(id, error, message, result, method) ==
    [ok |-> TRUE, id |-> id, error |-> error, message |-> message,
     result |-> result, method |-> method]

SyntaxError ==
    [ok |-> FALSE, id |-> 0, error |-> NoError, message |-> "",
     result |-> Undefined, method |-> ""]

\* the component deployScript is asked to deploy to, and another name
TargetName == <<88>>        \* X
OtherName == <<89>>         \* Y

Component(name, id, type) ==
    Object([Name |-> String(name), ID |-> String(id), Type |-> String(type)])

\* the components a core reports: the target by name with a script type and
\* with another type, another one whose ID is the target's name, and one that
\* does not match
ComponentValues ==
    {Component(TargetName, <<97>>, ControlScript2),
     Component(TargetName, <<98>>, OtherType),
     Component(OtherName, TargetName, DeviceControllerScript),
     Component(OtherName, <<100>>, ScriptableControls)}

RECURSIVE Lists(_)
Lists(n) ==
    IF n = 0 THEN {<<>>}
    ELSE LET shorter == Lists(n - 1)
         IN  shorter \cup {Append(l, c) : l \in {k \in shorter : Len(k) = n - 1},
                                          c \in ComponentValues}

\* results that are neither an array nor an object with an array Components
Unrecognized ==
    {JsonNull, Undefined, Number(7), String(<<115>>), Object(<<>>),
     Object([Components |-> Number(7)]), Object([Components |-> JsonNull])}

\* the results a core answers a request of deployScript with
DeployResults ==
    {Array(l) : l \in Lists(MaxList)}
        \cup {Object([Components |-> Array(l)]) : l \in Lists(MaxList)}
        \cup Unrecognized

\* the ids of the requests of one run of deployScript: Logon,
\* Component.GetComponents, Component.Set
DeployIds == {1, 2, 3}

\* {"id":i,"result":value}, and {"id":i} for no result
ReplyText(i, value) ==
    IF value = Undefined THEN IdOpen \o Digit(i) \o CloseBrace
    ELSE IdOpen \o Digit(i) \o ResultKey \o JSONstringify(value) \o CloseBrace

\* the answers of a core to deployScript, each with what JSON.parse makes of it
DeployReplies ==
    {[text |-> ReplyText(i, v), parsed |-> Parsed(i, NoError, "", v, "")] :
        i \in DeployIds, v \in DeployResults}
        \cup {[text |-> ErrorMsgText(i), parsed |-> Parsed(i, "object", "E", Undefined, "")] :
                  i \in DeployIds}

ReplyTexts == {m.text : m \in DeployReplies}

Control(name, value) == Object([Name |-> String(name), Value |-> value])

\* the results a core answers Component.Get with: the control "code" with a
\* text, first or behind another control; with an empty text, without Value;
\* only another control; no controls, no Controls, Controls that is no
\* array, a null entry, no object, null, no result
ScriptResults ==
    {Object([Controls |-> Array(<<Control(CodeName, String(<<115>>))>>)]),
     Object([Controls |-> Array(<<Control(OtherName, String(<<111>>)),
                                  Control(CodeName, String(<<115>>))>>)]),
     Object([Controls |-> Array(<<Control(CodeName, String(<<>>))>>)]),
     Object([Controls |-> Array(<<Object([Name |-> String(CodeName)])>>)]),
     Object([Controls |-> Array(<<Control(OtherName, String(<<111>>))>>)]),
     Object([Controls |-> Array(<<>>)]),
     Object([Controls |-> Array(<<JsonNull>>)]),
     Object([Controls |-> String(<<115>>)]),
     Object([Controls |-> Number(7)]),
     Object(<<>>), Array(<<>>), Number(7), JsonNull, Undefined}

\* the answers of a core to getScript, each with what JSON.parse makes of it
ScriptReplies ==
    {[text |-> ReplyText(i, v), parsed |-> Parsed(i, NoError, "", v, "")] :
        i \in Ids, v \in ScriptResults}

ScriptReplyTexts == {m.text : m \in ScriptReplies}

\* JSON.parse on the texts the peer of this model can produce; every other
\* text that reaches it here is not JSON and makes it throw
JSONparse(text) ==
    IF \E i \in Ids : text = ResultText(i)
      THEN Parsed((CHOOSE i \in Ids : text = ResultText(i)), NoError, "", Number(7), "")
    ELSE IF \E i \in Ids : text = ErrorMsgText(i)
      THEN Parsed((CHOOSE i \in Ids : text = ErrorMsgText(i)), "object", "E", Undefined, "")
    ELSE IF \E i \in Ids : text = ErrorBareText(i)
      THEN Parsed((CHOOSE i \in Ids : text = ErrorBareText(i)), "object", "", Undefined, "")
    ELSE IF \E i \in Ids : text = ErrorNullText(i)
      THEN Parsed((CHOOSE i \in Ids : text = ErrorNullText(i)), "null", "", Number(7), "")
    ELSE IF \E i \in Ids : text = NotifyIdText(i)
      THEN Parsed((CHOOSE i \in Ids : text = NotifyIdText(i)), NoError, "", Undefined, "S")
    ELSE IF text = NotifyText
      THEN Parsed(0, NoError, "", Undefined, "S")
    ELSE IF text \in {ArrayText, EmptyMethodText, TextA, TextB, TextC}
      THEN Parsed(0, NoError, "", Undefined, "")
    ELSE IF text \in ReplyTexts
      THEN (CHOOSE m \in DeployReplies : m.text = text).parsed
    ELSE IF text \in ScriptReplyTexts
      THEN (CHOOSE m \in ScriptReplies : m.text = text).parsed
    ELSE SyntaxError

\* ---------------------------------------------------------------- framer

\* mutant: only NUL terminates a frame
IsDelimiterNulOnly(byte) == byte = NUL

IsDelimiter(byte) == byte = NUL \/ byte = LF

\* Buffer.toString(): UTF-8 decoding.  An ASCII byte is its own code unit; a
\* byte that can start or continue no UTF-8 sequence (0xFF) decodes to U+FFFD
toString(bytes) ==
    [i \in 1..Len(bytes) |-> IF bytes[i] < 128 THEN bytes[i] ELSE 65533]

\* the code units String.prototype.trim removes (WhiteSpace and LineTerminator)
IsWhiteSpace(c) ==
    c \in {9, 10, 11, 12, 13, 32, 160, 5760, 8232, 8233, 8239, 8287, 12288, 65279}
        \cup (8192..8202)

RECURSIVE trimStart(_)
trimStart(str) ==
    IF Len(str) > 0 /\ IsWhiteSpace(str[1]) THEN trimStart(Tail(str)) ELSE str

RECURSIVE trimEnd(_)
trimEnd(str) ==
    IF Len(str) > 0 /\ IsWhiteSpace(str[Len(str)])
      THEN trimEnd(SubSeq(str, 1, Len(str) - 1))
      ELSE str

\* mutant: the span is not trimmed
trimNone(str) == str

trim(str) == trimEnd(trimStart(str))

\* buffer.slice(start, end) and buffer.slice(start), positions counted from 0
Slice(buffer, start, end) == SubSeq(buffer, start + 1, end)

\* mutant: the unterminated tail is dropped instead of carried over
RemainingDropped(buffer, messageStart) == <<>>

\* mutant: the whole buffer is carried over, scanned frames included
RemainingWhole(buffer, messageStart) == buffer

\* what processRawBuffer returns: the bytes after the last delimiter
Remaining(buffer, messageStart) == Slice(buffer, messageStart, Len(buffer))

\* the while loop of processRawBuffer from (currentPosition, messageStart) up to
\* its next await (a frame to hand to processMessage) or to its return.  The
\* iterations over bytes that are no delimiter only advance currentPosition, so
\* the loop is taken from delimiter to delimiter
RECURSIVE ScanLoop(_, _, _)
ScanLoop(buffer, currentPosition, messageStart) ==
    LET delimiters == {p \in currentPosition..(Len(buffer) - 1) : IsDelimiter(buffer[p + 1])}
    IN  IF delimiters = {}
          THEN [await |-> FALSE, messageStr |-> <<>>,
                rest |-> Remaining(buffer, messageStart)]
          ELSE LET position == CHOOSE p \in delimiters : \A q \in delimiters : p <= q
                   messageStr == trim(toString(Slice(buffer, messageStart, position)))
               IN  IF position > messageStart /\ Len(messageStr) > 0
                     THEN [await |-> TRUE, messageStr |-> messageStr,
                           rest |-> Slice(buffer, position + 1, Len(buffer))]
                     ELSE ScanLoop(buffer, position + 1, position + 1)

\* -------------------------------------------------------- processMessage

StartsJSON(message) == Len(message) > 0 /\ message[1] \in {123, 91}

\* response.id && this.responseCallbacks.has(response.id)
HasCallback(response, callbacks) ==
    response.id # 0 /\ response.id \in DOMAIN callbacks

\* mutant: the error's message is not read
CallbackOutcomeGeneric(response) ==
    IF response.error = "object"
      THEN [state |-> "rejected", value |-> Error("Unknown error")]
      ELSE [state |-> "resolved", value |-> response.result]

\* the callback sendCommand registers: reject on a truthy error, else resolve
CallbackOutcome(response) ==
    IF response.error = "object"
      THEN [state |-> "rejected",
            value |-> Error(IF response.message # "" THEN response.message
                                                     ELSE "Unknown error")]
      ELSE [state |-> "resolved", value |-> response.result]

\* resolve / reject of a promise: only the first one settles it
Settle(call, outcome) ==
    IF call.state = "pending"
      THEN [call EXCEPT !.state = outcome.state, !.value = outcome.value,
                        !.invoked = @ + 1]
      ELSE [call EXCEPT !.invoked = @ + 1]

\* mutant: the whole map is cleared
DeleteCallbackAll(callbacks, id) == <<>>

\* mutant: the entry is left in the map
DeleteCallbackKept(callbacks, id) == callbacks

\* this.responseCallbacks.delete(id)
DeleteCallback(callbacks, id) ==
    [k \in (DOMAIN callbacks) \ {id} |-> callbacks[k]]

\* mutant: the oldest registered callback is taken, whatever the id
GetCallbackOldest(callbacks, id) ==
    callbacks[CHOOSE k \in DOMAIN callbacks : \A j \in DOMAIN callbacks : k <= j]

\* this.responseCallbacks.get(response.id)
GetCallback(callbacks, id) == callbacks[id]

\* mutant: a message with a method is a notification, whatever its id
ClassifyMethodFirst(message, callbacks) ==
    IF ~StartsJSON(message) THEN "nonJson"
    ELSE LET response == JSONparse(message)
         IN  IF ~response.ok THEN "parseError"
             ELSE IF response.method # "" THEN "unsolicited"
             ELSE IF HasCallback(response, callbacks) THEN "callback"
             ELSE "ignored"

\* the branch processMessage takes on a frame
Classify(message, callbacks) ==
    IF ~StartsJSON(message) THEN "nonJson"
    ELSE LET response == JSONparse(message)
         IN  IF ~response.ok THEN "parseError"
             ELSE IF HasCallback(response, callbacks) THEN "callback"
             ELSE IF response.method # "" THEN "unsolicited"
             ELSE "ignored"

\* mutant: no try/catch, a JSON.parse error leaves processMessage
EscapesParseError(message) == StartsJSON(message) /\ ~JSONparse(message).ok

\* the try/catch of processMessage lets no exception reach processRawBuffer
Escapes(message) == FALSE

\* mutant: a response whose id is not registered goes to the oldest pending call
processMessageLoose(message) ==
    IF StartsJSON(message) /\ JSONparse(message).id # 0 /\ DOMAIN responseCallbacks # {}
      THEN LET response == JSONparse(message)
               k == CHOOSE k \in DOMAIN responseCallbacks :
                        \A j \in DOMAIN responseCallbacks : k <= j
               id == IF response.id \in DOMAIN responseCallbacks THEN response.id ELSE k
           IN  /\ calls' = [calls EXCEPT ![responseCallbacks[id]] =
                                Settle(@, CallbackOutcome(response))]
               /\ responseCallbacks' = DeleteCallback(responseCallbacks, id)
      ELSE UNCHANGED <<calls, responseCallbacks>>

FrameId(message) ==
    IF StartsJSON(message) THEN JSONparse(message).id ELSE 0

processMessage(message) ==
    IF Classify(message, responseCallbacks) = "callback"
      THEN LET response == JSONparse(message)
               c == GetCallback(responseCallbacks, response.id)
           IN  /\ calls' = [calls EXCEPT ![c] = Settle(@, CallbackOutcome(response))]
               /\ responseCallbacks' = DeleteCallback(responseCallbacks, response.id)
      ELSE UNCHANGED <<calls, responseCallbacks>>

NoEvent == [op |-> "none", kind |-> "none", id |-> 0, frame |-> <<>>]

Event(op, kind, id, frame) == [op |-> op, kind |-> kind, id |-> id, frame |-> frame]

\* one run of processRawBuffer on socket s from `bytes` to its next await, or
\* to its return and the .then that stores the remainder into rawBuffer;
\* `buffered` is the value the 'data' handler has just given rawBuffer
RunScan(op, s, bytes, buffered) ==
    LET r == ScanLoop(bytes, 0, 0)
    IN  IF r.await
          THEN /\ processMessage(r.messageStr)
               /\ ev' = Event(op, Classify(r.messageStr, responseCallbacks),
                              FrameId(r.messageStr), r.messageStr)
               /\ IF Escapes(r.messageStr)
                    THEN /\ scan' = Idle
                         /\ sockets' = [sockets EXCEPT ![s].rawBuffer = buffered]
                    ELSE /\ scan' = [sock |-> s, rest |-> r.rest]
                         /\ sockets' = [sockets EXCEPT ![s].rawBuffer = buffered]
          ELSE /\ UNCHANGED <<calls, responseCallbacks>>
               /\ ev' = NoEvent
               /\ scan' = Idle
               /\ sockets' = [sockets EXCEPT ![s].rawBuffer = r.rest]

\* mutant: a 'data' event is handled while the previous processRawBuffer call
\* is still suspended and rawBuffer still holds the bytes it was given
OnDataDuringScan(s, data) ==
    /\ sockets[s].state = "open"
    /\ LET rawBuffer == sockets[s].rawBuffer \o data
       IN  RunScan("frame", s, rawBuffer, rawBuffer)

\* the 'data' handler of socket s
OnData(s, data) ==
    /\ scan = Idle
    /\ sockets[s].state = "open"
    /\ LET rawBuffer == sockets[s].rawBuffer \o data
       IN  RunScan("frame", s, rawBuffer, rawBuffer)

\* the suspended processRawBuffer resumes after its await
OnResume ==
    /\ scan # Idle
    /\ RunScan("frame", scan.sock, scan.rest, sockets[scan.sock].rawBuffer)

\* ------------------------------------------------------------- sendCommand

\* mutant: the id is left out of the command
StringifyNoId(method, params, id) ==
    RequestOpen \o method \o RequestMid \o params \o CloseBrace

\* JSON.stringify({jsonrpc: '2.0', method, params, id}); params is given as
\* its JSON text
Stringify(method, params, id) ==
    RequestOpen \o method \o RequestMid \o params \o RequestId \o Digit(id) \o CloseBrace

\* mutant: the counter is not advanced
NextMessageIdSame(id) == id

\* this.messageId++ leaves this in messageId
NextMessageId(id) == id + 1

\* mutant: the callback is registered under the id after the one sent
SetCallbackAhead(callbacks, id, c) == (id + 1 :> c) @@ callbacks

\* this.responseCallbacks.set(id, callback of call c)
SetCallback(callbacks, id, c) == (id :> c) @@ callbacks

\* the default of the parameter params: []
NoParams == ArrayText

\* mutant: the id is taken before the socket is tested
sendCommandCountsFirst(method, params) ==
    \/ /\ socket = Null
       /\ messageId' = NextMessageId(messageId)
       /\ ev' = NoEvent
       /\ UNCHANGED <<sockets, socket, responseCallbacks, calls, writes, scan>>
    \/ /\ socket # Null
       /\ messageId' = NextMessageId(messageId)
       /\ calls' = Append(calls, [id |-> messageId, state |-> "pending",
                                  value |-> Undefined, invoked |-> 0])
       /\ responseCallbacks' = SetCallback(responseCallbacks, messageId, Len(calls) + 1)
       /\ writes' = Append(writes, [id |-> messageId,
                                    data |-> Stringify(method, params, messageId) \o <<NUL>>])
       /\ ev' = NoEvent
       /\ UNCHANGED <<sockets, socket, scan>>

\* sendCommand: reject at once without a socket; else take the next id,
\* register the callback and write the command and a NUL
sendCommand(method, params) ==
    \/ /\ socket = Null
       /\ ev' = NoEvent
       /\ UNCHANGED <<sockets, socket, responseCallbacks, messageId, calls, writes, scan>>
    \/ /\ socket # Null
       /\ messageId' = NextMessageId(messageId)
       /\ calls' = Append(calls, [id |-> messageId, state |-> "pending",
                                  value |-> Undefined, invoked |-> 0])
       /\ responseCallbacks' = SetCallback(responseCallbacks, messageId, Len(calls) + 1)
       /\ writes' = Append(writes, [id |-> messageId,
                                    data |-> Stringify(method, params, messageId) \o <<NUL>>])
       /\ ev' = NoEvent
       /\ UNCHANGED <<sockets, socket, scan>>

\* ------------------------------------------------------------- connection

\* mutant: rawBuffer is kept across connections
NewSocketInherits ==
    [state |-> "connecting",
     rawBuffer |-> IF sockets = <<>> THEN <<>> ELSE sockets[Len(sockets)].rawBuffer,
     promise |-> "pending"]

\* new net.Socket() and the let rawBuffer = Buffer.alloc(0) of this connect()
NewSocket == [state |-> "connecting", rawBuffer |-> <<>>, promise |-> "pending"]

\* mutant: connecting starts the ids again
connectResetsId ==
    /\ Len(sockets) < MaxConn
    /\ sockets' = Append(sockets, NewSocket)
    /\ socket' = Len(sockets) + 1
    /\ messageId' = 1
    /\ ev' = NoEvent
    /\ UNCHANGED <<responseCallbacks, calls, writes, scan>>

\* connect(): this.socket = new net.Socket(), a fresh rawBuffer, socket.connect
connect ==
    /\ Len(sockets) < MaxConn
    /\ sockets' = Append(sockets, NewSocket)
    /\ socket' = Len(sockets) + 1
    /\ ev' = NoEvent
    /\ UNCHANGED <<responseCallbacks, messageId, calls, writes, scan>>

\* the callback of socket.connect: resolve()
OnConnect(s) ==
    /\ scan = Idle
    /\ sockets[s].state = "connecting"
    /\ sockets' = [sockets EXCEPT ![s].state = "open", ![s].promise = "resolved"]
    /\ ev' = NoEvent
    /\ UNCHANGED <<socket, responseCallbacks, messageId, calls, writes, scan>>

\* mutant: reject(err) changes the promise also after resolve()
OnErrorRejectsSettled(s) ==
    /\ scan = Idle
    /\ sockets[s].state \in {"connecting", "open"}
    /\ sockets' = [sockets EXCEPT ![s].state = "destroyed", ![s].promise = "rejected"]
    /\ ev' = NoEvent
    /\ UNCHANGED <<socket, responseCallbacks, messageId, calls, writes, scan>>

\* the 'error' handler: reject(err); net.Socket destroys itself on an error
OnError(s) ==
    /\ scan = Idle
    /\ sockets[s].state \in {"connecting", "open"}
    /\ sockets' = [sockets EXCEPT ![s].state = "destroyed",
                                  ![s].promise = IF @ = "pending" THEN "rejected" ELSE @]
    /\ ev' = NoEvent
    /\ UNCHANGED <<socket, responseCallbacks, messageId, calls, writes, scan>>

\* the peer closes the connection: the client listens to neither 'end' nor 'close'
OnClose(s) ==
    /\ scan = Idle
    /\ sockets[s].state = "open"
    /\ sockets' = [sockets EXCEPT ![s].state = "destroyed"]
    /\ ev' = NoEvent
    /\ UNCHANGED <<socket, responseCallbacks, messageId, calls, writes, scan>>

\* mutant: no test of the handle, null.destroy() throws a TypeError
DisconnectedUnguarded(ss, sk) ==
    IF sk # Null
      THEN [sockets |-> [ss EXCEPT ![sk].state = "destroyed"], socket |-> Null, thrown |-> FALSE]
      ELSE [sockets |-> ss, socket |-> sk, thrown |-> TRUE]

\* what disconnect() leaves of the sockets ss and the handle sk:
\* if (this.socket) { this.socket.destroy(); this.socket = null; }
Disconnected(ss, sk) ==
    IF sk # Null
      THEN [sockets |-> [ss EXCEPT ![sk].state = "destroyed"], socket |-> Null, thrown |-> FALSE]
      ELSE [sockets |-> ss, socket |-> sk, thrown |-> FALSE]

\* disconnect(): destroy the socket and clear the handle, if there is one
disconnect ==
    /\ sockets' = Disconnected(sockets, socket).sockets
    /\ socket' = Disconnected(sockets, socket).socket
    /\ ev' = NoEvent
    /\ UNCHANGED <<responseCallbacks, messageId, calls, writes, scan>>

\* ------------------------------------------------------------------- peer

\* the messages the peer sends: a result or an error for any id, and one of
\* every other kind
Texts ==
    {ResultText(i) : i \in Ids} \cup {ErrorMsgText(i) : i \in Ids}
        \cup {ErrorBareText(1), ErrorNullText(1), NotifyIdText(1),
              NotifyText, EmptyMethodText, ArrayText, BadText, PlainText}

\* the chunks the peer sends: one frame, a malformed frame followed by a
\* result, a lone terminator
Chunks ==
    {t \o <<NUL>> : t \in Texts}
        \cup {BadText \o <<NUL>> \o ResultText(i) \o <<LF>> : i \in Ids}
        \cup {<<LF>>}

Receive(s) == \E data \in Chunks : OnData(s, data)

\* ------------------------------------------------------------------ client

\* the calls the users of the client make: getComponents()
Requests == {[method |-> GetComponents, params |-> NoParams]}

\* a call the bounds allow: the ids stay within Ids
Call(request) ==
    /\ socket # Null => Len(calls) < MaxCalls
    /\ sendCommand(request.method, request.params)

\* no run of deployScript
NoDeploy == [pc |-> "none", username |-> Undefined, password |-> Undefined, call |-> 0,
             login |-> Undefined,
             components |-> Undefined, shown |-> "none", script |-> Undefined,
             returned |-> "none"]

\* no run of a command or handler of the extension
NoHost == [pc |-> "none", autoDeployOnSave |-> FALSE, cores |-> <<>>,
           languageId |-> "", fsPath |-> "", started |-> <<>>, pairs |-> <<>>,
           successCount |-> 0, failCount |-> 0, summary |-> "none"]

Init ==
    /\ sockets = <<>>
    /\ socket = Null
    /\ responseCallbacks = <<>>
    /\ messageId = 1
    /\ calls = <<>>
    /\ writes = <<>>
    /\ scan = Idle
    /\ ev = NoEvent
    /\ input = <<>>
    /\ stream = <<>>
    /\ emitted = <<>>
    /\ wire = <<>>
    /\ deploy = NoDeploy
    /\ host = NoHost

Resume == OnResume /\ UNCHANGED <<socket, messageId, writes, input, stream, emitted, wire, deploy, host>>

Next ==
    \/ connect /\ UNCHANGED <<input, stream, emitted, wire, deploy, host>>
    \/ disconnect /\ UNCHANGED <<input, stream, emitted, wire, deploy, host>>
    \/ \E request \in Requests : Call(request) /\ UNCHANGED <<input, stream, emitted, wire, deploy, host>>
    \/ \E s \in DOMAIN sockets : OnConnect(s) /\ UNCHANGED <<input, stream, emitted, wire, deploy, host>>
    \/ \E s \in DOMAIN sockets : OnError(s) /\ UNCHANGED <<input, stream, emitted, wire, deploy, host>>
    \/ \E s \in DOMAIN sockets : OnClose(s) /\ UNCHANGED <<input, stream, emitted, wire, deploy, host>>
    \/ \E s \in DOMAIN sockets :
          Receive(s) /\ UNCHANGED <<socket, messageId, writes, input, stream, emitted, wire, deploy, host>>
    \/ Resume

Spec == Init /\ [][Next]_vars

\* a suspended processRawBuffer is a queued promise continuation: it does run
FairSpec == Spec /\ WF_vars(Resume)

\* ----------------------------------------------------------------- session
\* The client with a peer that only answers: every write is recorded with the
\* socket it went to.

Replies == {ResultText(i) \o <<NUL>> : i \in Ids}

Issue ==
    \E request \in Requests :
        /\ Call(request)
        /\ wire' = IF Len(writes') > Len(writes) THEN Append(wire, socket) ELSE wire
        /\ UNCHANGED <<input, stream, emitted, deploy, host>>

Reply ==
    \E s \in DOMAIN sockets : \E data \in Replies :
        /\ OnData(s, data)
        /\ UNCHANGED <<socket, messageId, writes, input, stream, emitted, wire, deploy, host>>

SessionNext ==
    \/ connect /\ UNCHANGED <<input, stream, emitted, wire, deploy, host>>
    \/ disconnect /\ UNCHANGED <<input, stream, emitted, wire, deploy, host>>
    \/ Issue
    \/ \E s \in DOMAIN sockets : OnConnect(s) /\ UNCHANGED <<input, stream, emitted, wire, deploy, host>>
    \/ \E s \in DOMAIN sockets : OnError(s) /\ UNCHANGED <<input, stream, emitted, wire, deploy, host>>
    \/ \E s \in DOMAIN sockets : OnClose(s) /\ UNCHANGED <<input, stream, emitted, wire, deploy, host>>
    \/ Reply
    \/ Resume

SessionSpec == Init /\ [][SessionNext]_vars

\* --------------------------------------------------------- typed commands

IsArray(value) == value.type = "array"

\* reading a property of null or undefined throws a TypeError
ThrowsOnRead(value) == value.type \in {"undefined", "null"}

\* value[name] where that does not throw
Get(value, name) ==
    IF value.type = "object" /\ name \in DOMAIN value.fields
      THEN value.fields[name]
      ELSE Undefined

Truthy(value) ==
    CASE value.type \in {"undefined", "null"} -> FALSE
      [] value.type = "number" -> value.value # 0
      [] value.type = "string" -> value.chars # <<>>
      [] OTHER -> TRUE

Resolve(value) == [state |-> "resolved", value |-> value]
Reject(message) == [state |-> "rejected", value |-> Error(message)]

\* mutant: only the bare array is recognized
getComponentsBareOnly(outcome) ==
    IF outcome.state = "rejected" THEN Reject("Failed to get components")
    ELSE IF IsArray(outcome.value) THEN Resolve(outcome.value)
    ELSE IF ThrowsOnRead(outcome.value) THEN Reject("Failed to get components")
    ELSE Resolve(Array(<<>>))

\* getComponents() from the outcome of its sendCommand call on
getComponents(outcome) ==
    IF outcome.state = "rejected" THEN Reject("Failed to get components")
    ELSE LET result == outcome.value
         IN  IF IsArray(result) THEN Resolve(result)
             ELSE IF ThrowsOnRead(result) THEN Reject("Failed to get components")
             ELSE IF Truthy(Get(result, "Components")) /\ IsArray(Get(result, "Components"))
               THEN Resolve(Get(result, "Components"))
             ELSE Resolve(Array(<<>>))

\* the params of setScript: [{Name, Controls: [{Name: "code", Value}]}]
SetParams(componentName, scriptContent) ==
    OpenBracket \o NameKey \o JSONString(componentName) \o ControlsKey
        \o JSONString(scriptContent) \o ControlsEnd \o CloseBracket

\* the params of login: {User, Password}
LogonParams(username, password) ==
    UserKey \o JSONString(username) \o PasswordKey \o JSONString(password) \o CloseBrace

\* mutant: the error of the request is thrown as it is
loginUnwrapped(outcome) ==
    IF outcome.state = "rejected" THEN outcome ELSE Resolve(Undefined)

\* login from the outcome of its sendCommand call on: the catch throws
\* new Error(`Authentication failed: ${err}`), and an Error prints as
\* "Error: " and its message
login(outcome) ==
    IF outcome.state = "rejected"
      THEN Reject("Authentication failed: Error: " \o outcome.value.message)
      ELSE Resolve(Undefined)

\* the params of getScript: [{Name, Controls: ["code"]}]
GetParams(componentName) ==
    OpenBracket \o NameKey \o JSONString(componentName) \o GetControls \o CloseBracket

\* value.length
Length(value) ==
    IF value.type = "array" THEN Len(value.items)
    ELSE IF value.type = "string" THEN Len(value.chars)
    ELSE 0

\* getScript from the outcome of its sendCommand call on: the Value of the
\* first control named "code" if that is truthy, else ''; every exception, also
\* a TypeError of its own reads, is thrown as 'Failed to get script'
getScript(outcome) ==
    IF outcome.state = "rejected" THEN Reject("Failed to get script")
    ELSE LET result == outcome.value
             controls == Get(result, "Controls")
         IN  IF ~(Truthy(result) /\ Truthy(controls) /\ Length(controls) > 0)
               THEN Resolve(String(<<>>))
             ELSE IF ~IsArray(controls) THEN Reject("Failed to get script")
             ELSE LET stops == {i \in 1..Len(controls.items) :
                                   \/ ThrowsOnRead(controls.items[i])
                                   \/ Get(controls.items[i], "Name") = String(CodeName)}
                  IN  IF stops = {} THEN Resolve(String(<<>>))
                      ELSE LET codeControl ==
                                   controls.items[CHOOSE i \in stops : \A j \in stops : i <= j]
                           IN  IF ThrowsOnRead(codeControl) THEN Reject("Failed to get script")
                               ELSE IF Truthy(Get(codeControl, "Value"))
                                 THEN Resolve(Get(codeControl, "Value"))
                               ELSE Resolve(String(<<>>))

\* ----------------------------------------------------------- deployScript
\* One run of deployScript on a client of its own: each action is the part of
\* the function between two awaits.

ValidTypes == {DeviceControllerScript, ControlScript2, ScriptableControls}

\* comp.Name === componentName || comp.ID === componentName
Matches(comp, componentName) ==
    \/ Get(comp, "Name") = String(componentName)
    \/ Get(comp, "ID") = String(componentName)

\* mutant: any matching component with a valid type will do
validateComponentAnyMatch(componentName, components) ==
    IF components.state = "rejected" THEN FALSE
    ELSE \E i \in 1..Len(components.value.items) :
             /\ Matches(components.value.items[i], componentName)
             /\ Get(components.value.items[i], "Type") \in {String(t) : t \in ValidTypes}

\* mutant: the type of the matched component is not looked at
validateComponentAnyType(componentName, components) ==
    IF components.state = "rejected" THEN FALSE
    ELSE \E i \in 1..Len(components.value.items) :
             Matches(components.value.items[i], componentName)

\* validateComponent from the outcome of its getComponents call on: the first
\* component that matches has to have a valid type; every exception gives false
validateComponent(componentName, components) ==
    IF components.state = "rejected" THEN FALSE
    ELSE LET items == components.value.items
             stops == {i \in 1..Len(items) :
                          ThrowsOnRead(items[i]) \/ Matches(items[i], componentName)}
         IN  IF stops = {} THEN FALSE
             ELSE LET matchedComponent == items[CHOOSE i \in stops : \A j \in stops : i <= j]
                  IN  /\ ~ThrowsOnRead(matchedComponent)
                      /\ Get(matchedComponent, "Type") \in {String(t) : t \in ValidTypes}

\* mutant: a match of another type is reported as not found
ShownNotFoundOnly(componentName, components) ==
    IF components.state = "rejected" THEN "Error validating component"
    ELSE IF validateComponent(componentName, components) THEN "none"
    ELSE "not found"

\* the message validateComponent shows with showErrorMessage before it
\* returns: none when the component is valid
Shown(componentName, components) ==
    IF components.state = "rejected" THEN "Error validating component"
    ELSE LET items == components.value.items
             stops == {i \in 1..Len(items) :
                          ThrowsOnRead(items[i]) \/ Matches(items[i], componentName)}
         IN  IF stops = {} THEN "not found"
             ELSE LET matchedComponent == items[CHOOSE i \in stops : \A j \in stops : i <= j]
                  IN  IF ThrowsOnRead(matchedComponent) THEN "Error validating component"
                      ELSE IF Get(matchedComponent, "Type") \in {String(t) : t \in ValidTypes}
                        THEN "none"
                      ELSE "is not a valid script component type"

\* core.username, core.password and the texts of the file
Username == <<117>>
Password == <<112>>

\* the optional username and password of a QSysCore: absent, empty, or a text
Usernames == {Undefined, String(Username)}
Passwords == {Undefined, String(<<>>), String(Password)}

\* if (core.username && core.password)
Authenticates == Truthy(deploy.username) /\ Truthy(deploy.password)
Scripts == {<<115>>, <<34, 10, 0>>}

\* the promise a sendCommand call of this run returned: call 0 is one that was
\* rejected at once
Awaited(c) ==
    IF c = 0 THEN Reject("Not connected to Q-SYS Core")
    ELSE [state |-> calls[c].state, value |-> calls[c].value]

\* sendCommand called by this run, which then waits at `pc`
DeployCommand(method, params, pc) ==
    /\ sendCommand(method, params)
    /\ deploy' = [deploy EXCEPT !.pc = pc,
                                !.call = IF socket = Null THEN 0 ELSE Len(calls) + 1]

\* mutant: the catch block returns false without client.disconnect()
DeployFailConnected ==
    /\ ev' = NoEvent
    /\ UNCHANGED <<sockets, socket, responseCallbacks, messageId, calls, writes, scan>>
    /\ deploy' = [deploy EXCEPT !.pc = "done", !.returned = "false"]

\* return false after client.disconnect()
DeployFail ==
    /\ disconnect
    /\ deploy' = [deploy EXCEPT !.pc = "done", !.returned = "false"]

\* up to await client.connect()
DeployStart ==
    /\ deploy.pc = "start"
    /\ connect
    /\ deploy' = [deploy EXCEPT !.pc = "connect"]
    /\ UNCHANGED <<input, stream, emitted, wire, host>>

\* after await client.connect(): login if there are credentials, else
\* validateComponent up to its await
AfterConnect ==
    /\ deploy.pc = "connect"
    /\ sockets[socket].promise # "pending"
    /\ IF sockets[socket].promise = "rejected" THEN DeployFail
       ELSE IF Authenticates
         THEN DeployCommand(Logon, LogonParams(deploy.username.chars, deploy.password.chars),
                            "login")
         ELSE DeployCommand(GetComponents, NoParams, "validate")
    /\ UNCHANGED <<input, stream, emitted, wire, host>>

\* mutant: the run goes on to validateComponent also when login() has failed
AfterLoginContinues ==
    /\ deploy.pc = "login"
    /\ Awaited(deploy.call).state # "pending"
    /\ DeployCommand(GetComponents, NoParams, "validate")
    /\ UNCHANGED <<input, stream, emitted, wire, host>>

\* after await client.login(..): validateComponent up to its await
AfterLogin ==
    /\ deploy.pc = "login"
    /\ Awaited(deploy.call).state # "pending"
    /\ IF login(Awaited(deploy.call)).state = "rejected" THEN DeployFail
       ELSE DeployCommand(GetComponents, NoParams, "validate")
    /\ UNCHANGED <<input, stream, emitted, wire, host>>

\* after await client.getComponents() in validateComponent, up to await
\* openTextDocument
AfterValidate ==
    /\ deploy.pc = "validate"
    /\ Awaited(deploy.call).state # "pending"
    /\ LET components == getComponents(Awaited(deploy.call))
       IN  IF validateComponent(TargetName, components)
             THEN /\ deploy' = [deploy EXCEPT !.pc = "open", !.components = components,
                                              !.shown = Shown(TargetName, components)]
                  /\ ev' = NoEvent
                  /\ UNCHANGED <<sockets, socket, responseCallbacks, messageId, calls,
                                 writes, scan>>
             ELSE /\ disconnect
                  /\ deploy' = [deploy EXCEPT !.pc = "done", !.returned = "false",
                                              !.components = components,
                                              !.shown = Shown(TargetName, components)]
    /\ UNCHANGED <<input, stream, emitted, wire, host>>

\* after await openTextDocument(filePath): setScript up to its await, or the
\* catch when the file cannot be opened
AfterOpen ==
    /\ deploy.pc = "open"
    /\ \/ \E scriptContent \in Scripts :
             DeployCommand(ComponentSet, SetParams(TargetName, scriptContent), "set")
       \/ DeployFail
    /\ UNCHANGED <<input, stream, emitted, wire, host>>

\* after await client.setScript(..): disconnect and return
AfterSet ==
    /\ deploy.pc = "set"
    /\ Awaited(deploy.call).state # "pending"
    /\ disconnect
    /\ deploy' = [deploy EXCEPT !.pc = "done",
                                !.returned = IF Awaited(deploy.call).state = "resolved"
                                               THEN "true" ELSE "false"]
    /\ UNCHANGED <<input, stream, emitted, wire, host>>

\* the request written is one of `method`
IsRequest(write, method) ==
    LET open == RequestOpen \o method \o RequestMid
    IN  Len(write.data) >= Len(open) /\ SubSeq(write.data, 1, Len(open)) = open

\* what the core sends: a plain result or an error for any id, any of the
\* results of DeployResults for a Component.GetComponents request it has been
\* sent and that is not answered yet, a notification
DeployChunks ==
    {t \o <<NUL>> :
        t \in {ReplyText(i, Number(7)) : i \in DeployIds}
                \cup {ErrorMsgText(i) : i \in DeployIds}
                \cup {ReplyText(writes[k].id, v) :
                          k \in {j \in 1..Len(writes) :
                                    /\ IsRequest(writes[j], GetComponents)
                                    /\ writes[j].id \in DOMAIN responseCallbacks},
                          v \in DeployResults}
                \cup {NotifyText}}

DeployReceive ==
    \E s \in DOMAIN sockets : \E data \in DeployChunks :
        /\ OnData(s, data)
        /\ UNCHANGED <<socket, messageId, writes, input, stream, emitted, wire, deploy, host>>

DeployInit ==
    /\ sockets = <<>>
    /\ socket = Null
    /\ responseCallbacks = <<>>
    /\ messageId = 1
    /\ calls = <<>>
    /\ writes = <<>>
    /\ scan = Idle
    /\ ev = NoEvent
    /\ input = <<>>
    /\ stream = <<>>
    /\ emitted = <<>>
    /\ wire = <<>>
    /\ deploy \in {[NoDeploy EXCEPT !.pc = "start", !.username = u, !.password = p] :
                     u \in Usernames, p \in Passwords}
    /\ host = NoHost

DeployNext ==
    \/ DeployStart
    \/ AfterConnect
    \/ AfterLogin
    \/ AfterValidate
    \/ AfterOpen
    \/ AfterSet
    \/ \E s \in DOMAIN sockets : OnConnect(s) /\ UNCHANGED <<input, stream, emitted, wire, deploy, host>>
    \/ \E s \in DOMAIN sockets : OnError(s) /\ UNCHANGED <<input, stream, emitted, wire, deploy, host>>
    \/ \E s \in DOMAIN sockets : OnClose(s) /\ UNCHANGED <<input, stream, emitted, wire, deploy, host>>
    \/ DeployReceive
    \/ Resume

DeploySpec == DeployInit /\ [][DeployNext]_vars

\* ------------------------------------------------------------------- login
\* A user of the client that connects, disconnects and calls login once, at
\* any time, also on a client that has no socket; the core answers with a
\* result or an error.

\* login(username, password) up to its await
LoginCall ==
    /\ deploy.pc = "none"
    /\ socket # Null => Len(calls) < MaxCalls
    /\ DeployCommand(Logon, LogonParams(Username, Password), "login")
    /\ UNCHANGED <<input, stream, emitted, wire, host>>

\* after await this.sendCommand('Logon', ..): return, or the catch
LoginSettle ==
    /\ deploy.pc = "login"
    /\ Awaited(deploy.call).state # "pending"
    /\ deploy' = [deploy EXCEPT !.pc = "done", !.login = login(Awaited(deploy.call))]
    /\ ev' = NoEvent
    /\ UNCHANGED <<sockets, socket, responseCallbacks, messageId, calls, writes, scan,
                   input, stream, emitted, wire, host>>

LoginChunks ==
    {t \o <<NUL>> : t \in {ResultText(i) : i \in Ids} \cup {ErrorMsgText(i) : i \in Ids}
                             \cup {ErrorBareText(1)}}

LoginReceive ==
    \E s \in DOMAIN sockets : \E data \in LoginChunks :
        /\ OnData(s, data)
        /\ UNCHANGED <<socket, messageId, writes, input, stream, emitted, wire, deploy, host>>

LoginNext ==
    \/ LoginCall
    \/ LoginSettle
    \/ connect /\ UNCHANGED <<input, stream, emitted, wire, deploy, host>>
    \/ disconnect /\ UNCHANGED <<input, stream, emitted, wire, deploy, host>>
    \/ \E s \in DOMAIN sockets : OnConnect(s) /\ UNCHANGED <<input, stream, emitted, wire, deploy, host>>
    \/ \E s \in DOMAIN sockets : OnError(s) /\ UNCHANGED <<input, stream, emitted, wire, deploy, host>>
    \/ \E s \in DOMAIN sockets : OnClose(s) /\ UNCHANGED <<input, stream, emitted, wire, deploy, host>>
    \/ LoginReceive
    \/ Resume

LoginSpec == Init /\ [][LoginNext]_vars

\* --------------------------------------------------------------- getScript
\* A user of the client that connects, disconnects and calls getScript once,
\* at any time; the core answers with any of ScriptResults or an error.

\* getScript(componentName) up to its await
ScriptCall ==
    /\ deploy.pc = "none"
    /\ socket # Null => Len(calls) < MaxCalls
    /\ DeployCommand(ComponentGet, GetParams(TargetName), "get")
    /\ UNCHANGED <<input, stream, emitted, wire, host>>

\* after await this.sendCommand('Component.Get', ..): return, or the catch
ScriptSettle ==
    /\ deploy.pc = "get"
    /\ Awaited(deploy.call).state # "pending"
    /\ deploy' = [deploy EXCEPT !.pc = "done", !.script = getScript(Awaited(deploy.call))]
    /\ ev' = NoEvent
    /\ UNCHANGED <<sockets, socket, responseCallbacks, messageId, calls, writes, scan,
                   input, stream, emitted, wire, host>>

ScriptChunks ==
    {t \o <<NUL>> : t \in ScriptReplyTexts \cup {ErrorMsgText(i) : i \in Ids}}

ScriptReceive ==
    \E s \in DOMAIN sockets : \E data \in ScriptChunks :
        /\ OnData(s, data)
        /\ UNCHANGED <<socket, messageId, writes, input, stream, emitted, wire, deploy, host>>

ScriptNext ==
    \/ ScriptCall
    \/ ScriptSettle
    \/ connect /\ UNCHANGED <<input, stream, emitted, wire, deploy, host>>
    \/ disconnect /\ UNCHANGED <<input, stream, emitted, wire, deploy, host>>
    \/ \E s \in DOMAIN sockets : OnConnect(s) /\ UNCHANGED <<input, stream, emitted, wire, deploy, host>>
    \/ \E s \in DOMAIN sockets : OnError(s) /\ UNCHANGED <<input, stream, emitted, wire, deploy, host>>
    \/ \E s \in DOMAIN sockets : OnClose(s) /\ UNCHANGED <<input, stream, emitted, wire, deploy, host>>
    \/ ScriptReceive
    \/ Resume

ScriptSpec == Init /\ [][ScriptNext]_vars

\* ------------------------------------------------------------------ framer
\* The receive path alone, on a connected client: the peer sends `input`, the
\* transport delivers it in chunks of any sizes.

Alphabet == {NUL, LF, 32, 123, 255}

RECURSIVE ByteStrings(_)
ByteStrings(n) ==
    IF n = 0 THEN {<<>>}
    ELSE LET shorter == ByteStrings(n - 1)
         IN  shorter \cup {Append(b, x) : b \in {c \in shorter : Len(c) = n - 1},
                                          x \in Alphabet}

\* {"a":1} NUL {"b":2} LF {"c":3}
MixedExample == TextA \o <<NUL>> \o TextB \o <<LF>> \o TextC

Inputs == ByteStrings(MaxLen) \cup {MixedExample, MixedExample \o <<NUL>>}

Connected == [state |-> "open", rawBuffer |-> <<>>, promise |-> "resolved"]

FramerInit ==
    /\ sockets = <<Connected>>
    /\ socket = 1
    /\ responseCallbacks = <<>>
    /\ messageId = 1
    /\ calls = <<>>
    /\ writes = <<>>
    /\ scan = Idle
    /\ ev = NoEvent
    /\ input \in Inputs
    /\ stream = input
    /\ emitted = <<>>
    /\ wire = <<>>
    /\ deploy = NoDeploy
    /\ host = NoHost

\* the frame a run of processRawBuffer on `bytes` hands to processMessage before
\* it suspends, if any
Handed(bytes) ==
    LET r == ScanLoop(bytes, 0, 0)
    IN  IF r.await THEN <<r.messageStr>> ELSE <<>>

FramerReceive ==
    \E n \in 1..Len(stream) :
        /\ OnData(1, SubSeq(stream, 1, n))
        /\ stream' = SubSeq(stream, n + 1, Len(stream))
        /\ emitted' = emitted \o Handed(sockets[1].rawBuffer \o SubSeq(stream, 1, n))
        /\ UNCHANGED <<socket, messageId, writes, input, wire, deploy, host>>

FramerResume ==
    /\ OnResume
    /\ emitted' = emitted \o Handed(scan.rest)
    /\ UNCHANGED <<socket, messageId, writes, input, stream, wire, deploy, host>>

FramerNext == FramerReceive \/ FramerResume

FramerSpec == FramerInit /\ [][FramerNext]_vars

\* the part of input received so far
Delivered == SubSeq(input, 1, Len(input) - Len(stream))

\* the frames processRawBuffer hands over when `bytes` arrive as one chunk on a
\* fresh connection
RECURSIVE SingleChunk(_)
SingleChunk(bytes) ==
    LET r == ScanLoop(bytes, 0, 0)
    IN  IF r.await THEN <<r.messageStr>> \o SingleChunk(r.rest) ELSE <<>>

\* ------------------------------------------------------------ properties

Done == stream = <<>> /\ scan = Idle

\* C1: however the bytes received so far were split into chunks, the frames
\* handed to processMessage are those of the same bytes arriving as one chunk
ChunkIndependence == scan = Idle => emitted = SingleChunk(Delivered)

\* a frame was handed over, an unterminated piece is buffered and more is to come
ChunkIndependenceWitness ==
    /\ scan = Idle
    /\ emitted # <<>>
    /\ sockets[1].rawBuffer # <<>>
    /\ stream # <<>>
    /\ IsDelimiter(stream[1])

\* C10 as stated: {"a":1} NUL {"b":2} LF {"c":3} yields the three frames
MixedYieldsThree ==
    (input = MixedExample /\ Done) => emitted = <<TextA, TextB, TextC>>

\* C10 amended: {"a":1} NUL {"b":2} LF {"c":3} yields the two terminated frames,
\* in order and with their exact text; the unterminated {"c":3} stays in the
\* buffer and becomes the third frame once a delimiter follows it
MixedYieldsTwo ==
    /\ (input = MixedExample /\ Done) =>
          /\ emitted = <<TextA, TextB>>
          /\ sockets[1].rawBuffer = TextC
    /\ (input = MixedExample \o <<NUL>> /\ Done) =>
          /\ emitted = <<TextA, TextB, TextC>>
          /\ sockets[1].rawBuffer = <<>>

MixedWitness == input = MixedExample /\ Done /\ Len(emitted) = 2

Pending(c) == c <= Len(calls) /\ calls[c].state = "pending"

ClosedFailure(c) ==
    c <= Len(calls) /\ calls[c].state = "rejected" /\ calls[c].value = Error("ConnectionClosed")

\* C2: a call still pending when disconnect() cleared the handle eventually
\* fails with ConnectionClosed
PendingFailOnDisconnect ==
    \A c \in 1..MaxCalls :
        [](socket = Null /\ Pending(c)
             => <>ClosedFailure(c))

IsOpen == socket # Null /\ sockets[socket].state = "open"

\* C3: sendCommand registers a call and writes to the socket only when the
\* socket is open; otherwise it rejects at once and does neither
FailFastUnlessOpen ==
    [][(Len(calls') > Len(calls) \/ Len(writes') > Len(writes)) => IsOpen]_vars

\* C4: the ids issued are 1, 2, 3, ... in issue order, one per call, and
\* messageId is always the next one, across disconnect() and connect()
IdsInIssueOrder ==
    /\ Len(writes) = Len(calls)
    /\ \A i \in 1..Len(calls) : calls[i].id = i /\ writes[i].id = i
    /\ messageId = Len(calls) + 1

\* two calls were issued on two different connections, the first of which
\* is gone
IdsWitness ==
    /\ Len(wire) = 2
    /\ wire[1] # wire[2]
    /\ socket = wire[2]
    /\ sockets[wire[1]].state = "destroyed"

\* C5: a call is settled only by the frame that carries its id, and the frame
\* that carries the id of a pending call settles that call and no other
SettledById ==
    [][\A c \in 1..Len(calls) :
          (calls'[c] # calls[c]) <=>
              (ev'.kind = "callback" /\ ev'.id = calls[c].id /\ Pending(c))]_vars

\* the second call has been settled while the first is still pending
OutOfOrderWitness ==
    Len(calls) = 2 /\ Pending(1) /\ ~Pending(2) /\ ev.kind = "callback" /\ ev.id = 2

\* a frame with an id that no pending call has was handed to processMessage
Unmatched(e) ==
    e.kind \in {"unsolicited", "ignored"} /\ e.id # 0

\* C6: a response whose id has no pending call changes nothing: no call is
\* settled, the pending map and the id counter stay, the scan goes on
UnmatchedDiscarded ==
    [][Unmatched(ev') =>
          /\ UNCHANGED <<calls, responseCallbacks, messageId, socket>>
          /\ scan' # Idle
          /\ \A s \in DOMAIN sockets : sockets'[s].state = sockets[s].state]_vars

\* such a response arrived while another call was pending
UnmatchedWitness == Unmatched(ev) /\ ev.id = 2 /\ Pending(1) /\ 1 \in DOMAIN responseCallbacks

\* the outcome the claim C7 gives a call for a response
Rejected(call, response) ==
    /\ call.state = "rejected"
    /\ call.value = Error(IF response.message # "" THEN response.message ELSE "Unknown error")

Resolved(call, response) ==
    call.state = "resolved" /\ call.value = response.result

\* C7 as stated: a matching response with an error field fails the call, one
\* without an error field resolves it with result; the entry is removed
OutcomeByErrorField ==
    [][ev'.kind = "callback" =>
          LET response == JSONparse(ev'.frame)
              c == responseCallbacks[response.id]
          IN  /\ response.error # NoError => Rejected(calls'[c], response)
              /\ response.error = NoError => Resolved(calls'[c], response)
              /\ response.id \notin DOMAIN responseCallbacks']_vars

\* C7 amended: a matching response with a truthy error (an error object) fails
\* the call with error.message, or "Unknown error" without one; a response with
\* no error field or a falsy one (null) resolves it with result; in both cases
\* the entry is removed
OutcomeByTruthyError ==
    [][ev'.kind = "callback" =>
          LET response == JSONparse(ev'.frame)
              c == responseCallbacks[response.id]
          IN  /\ response.error = "object" => Rejected(calls'[c], response)
              /\ response.error # "object" => Resolved(calls'[c], response)
              /\ response.id \notin DOMAIN responseCallbacks']_vars

\* a response with "error": null has just resolved its call
NullErrorWitness ==
    /\ ev.kind = "callback"
    /\ JSONparse(ev.frame).error = "null"
    /\ \E c \in 1..Len(calls) : calls[c].id = ev.id /\ calls[c].state = "resolved"

\* C8: a call's callback runs at most once, a settled call never changes, and
\* a later message with the id of a settled call changes no call at all
OneShot ==
    [][/\ \A c \in 1..Len(calls') : calls'[c].invoked <= 1
       /\ \A c \in 1..Len(calls) :
             ~Pending(c) =>
                 /\ calls'[c] = calls[c]
                 /\ (ev'.op = "frame" /\ ev'.id = calls[c].id) =>
                        UNCHANGED <<calls, responseCallbacks>>]_vars

\* a second message with the id of an already settled call was handed over
RepeatWitness ==
    /\ Unmatched(ev)
    /\ \E c \in 1..Len(calls) : calls[c].id = ev.id /\ ~Pending(c) /\ calls[c].invoked = 1
    /\ \E c \in 1..Len(calls) : Pending(c)

\* the bytes a step's run of processRawBuffer started from
Scanned == IF scan = Idle THEN sockets'[scan'.sock].rawBuffer ELSE scan.rest

\* C9: a frame that is not JSON, or that JSON.parse rejects, closes no socket,
\* settles and removes no call, and the frames after it are still handed over
MalformedDiscarded ==
    [][ev'.kind \in {"parseError", "nonJson"} =>
          /\ UNCHANGED <<calls, responseCallbacks, socket>>
          /\ \A s \in DOMAIN sockets : sockets'[s].state = sockets[s].state
          /\ scan' # Idle
          /\ SingleChunk(Scanned) = <<ev'.frame>> \o SingleChunk(scan'.rest)]_vars

\* the frame after an unparseable one, in the same chunk, has settled its call
MalformedWitness ==
    /\ scan # Idle
    /\ \E i \in Ids :
          /\ sockets[scan.sock].rawBuffer = BadText \o <<NUL>> \o ResultText(i) \o <<LF>>
          /\ ev.kind = "callback"
          /\ ev.id = i

\* the spans of `bytes` that a delimiter terminates, in order
RECURSIVE Spans(_)
Spans(bytes) ==
    IF \A i \in 1..Len(bytes) : bytes[i] \notin {NUL, LF} THEN <<>>
    ELSE LET k == CHOOSE i \in 1..Len(bytes) :
                      /\ bytes[i] \in {NUL, LF}
                      /\ \A j \in 1..(i - 1) : bytes[j] \notin {NUL, LF}
         IN  <<SubSeq(bytes, 1, k - 1)>> \o Spans(SubSeq(bytes, k + 1, Len(bytes)))

\* a span with nothing in it but whitespace (the empty span included)
Blank(span) == \A i \in 1..Len(span) : IsWhiteSpace(toString(span)[i])

\* the text of a span that is not blank, without the whitespace around it
Strip(str) ==
    LET inked == {i \in 1..Len(str) : ~IsWhiteSpace(str[i])}
        first == CHOOSE i \in inked : \A j \in inked : i <= j
        last == CHOOSE i \in inked : \A j \in inked : j <= i
    IN  SubSeq(str, first, last)

NotBlank(span) == ~Blank(span)

\* the frames of `bytes` when every blank span is left out
NonBlankFrames(bytes) ==
    LET kept == SelectSeq(Spans(bytes), NotBlank)
    IN  [i \in 1..Len(kept) |-> Strip(toString(kept[i]))]

\* C11: a span that is empty or only whitespace (two adjacent delimiters, a
\* chunk of delimiters only) causes no call of processMessage, and the frames
\* handed over are those of the other spans, in order
EmptySpansSkipped == scan = Idle => emitted = NonBlankFrames(Delivered)

\* all of an input with two adjacent delimiters and a span of whitespace only
\* was received, and a frame was handed over
EmptySpansWitness ==
    /\ Done
    /\ emitted # <<>>
    /\ \E i \in 1..(Len(input) - 1) : IsDelimiter(input[i]) /\ IsDelimiter(input[i + 1])
    /\ \E i \in 1..Len(Spans(input)) : Spans(input)[i] # <<>> /\ Blank(Spans(input)[i])

\* C12: a frame is handed over once: a receive event appends its chunk to a
\* buffer that holds no terminated span, and the frames handed over so far are
\* always the first frames of the bytes received, each one time
NoRescan ==
    [][/\ stream' # stream =>
            \A i \in 1..Len(sockets[1].rawBuffer) : ~IsDelimiter(sockets[1].rawBuffer[i])
       /\ Len(emitted') <= Len(SingleChunk(Delivered'))
       /\ emitted' = SubSeq(SingleChunk(Delivered'), 1, Len(emitted'))]_vars

\* a receive event has handed over a frame from a buffer that no longer holds
\* the bytes an earlier receive event resolved into a frame
NoRescanWitness ==
    /\ scan # Idle
    /\ Len(emitted) >= 2
    /\ LET held == sockets[1].rawBuffer
           before == SubSeq(Delivered, 1, Len(Delivered) - Len(held))
       IN  /\ held = SubSeq(Delivered, Len(Delivered) - Len(held) + 1, Len(Delivered))
           /\ SingleChunk(before) # <<>>

\* the requests of `method` written so far, by their place in writes (their
\* calls have the same place in calls)
Written(method) == {k \in 1..Len(writes) : IsRequest(writes[k], method)}

\* the components a Component.GetComponents result lists
Enumerated(result) ==
    IF result.type = "array" THEN result.items
    ELSE IF /\ result.type = "object"
            /\ "Components" \in DOMAIN result.fields
            /\ result.fields.Components.type = "array"
      THEN result.fields.Components.items
    ELSE <<>>

IsTarget(comp) ==
    comp.fields.Name.chars = TargetName \/ comp.fields.ID.chars = TargetName

IsAllowed(comp) ==
    comp.fields.Type.chars \in {DeviceControllerScript, ControlScript2, ScriptableControls}

\* the first component of the result that matches the target has an allowed type
FirstMatchAllowed(result) ==
    \E i \in 1..Len(Enumerated(result)) :
        /\ IsTarget(Enumerated(result)[i]) /\ IsAllowed(Enumerated(result)[i])
        /\ \A j \in 1..(i - 1) : ~IsTarget(Enumerated(result)[j])

\* C13: a Component.Set request is written only after the Component.GetComponents
\* request of the run was answered with a result that lists a component matching
\* the target with an allowed type; when the answer is an error, lists no
\* match, or the match has another type, no Component.Set is written and the
\* run returns false
SetOnlyAfterValidation ==
    /\ Len(sockets) <= 1
    /\ \A k \in Written(ComponentSet) :
          \E g \in Written(GetComponents) :
              /\ g < k
              /\ calls[g].state = "resolved"
              /\ \E i \in 1..Len(Enumerated(calls[g].value)) :
                     /\ IsTarget(Enumerated(calls[g].value)[i])
                     /\ IsAllowed(Enumerated(calls[g].value)[i])
    /\ \A g \in Written(GetComponents) :
          (\/ calls[g].state = "rejected"
           \/ calls[g].state = "resolved" /\ ~FirstMatchAllowed(calls[g].value))
              => /\ Written(ComponentSet) = {}
                 /\ deploy.pc \in {"validate", "done"}
                 /\ deploy.pc = "done" => deploy.returned = "false"

\* after a login, the match was found by its ID behind a component that does
\* not match, in a {Components: [..]} result, and Component.Set was written
SetAfterValidationWitness ==
    /\ deploy.pc = "set"
    /\ Authenticates
    /\ Written(ComponentSet) = {3}
    /\ calls[2].value =
           Object([Components |-> Array(<<Component(OtherName, <<100>>, ScriptableControls),
                                          Component(OtherName, TargetName, DeviceControllerScript)>>)])

\* the params of Component.Set as documented: {Name, Controls: [{Name, Value}]}
DocumentedSetParams(componentName, scriptContent) ==
    NameKey \o JSONString(componentName) \o ControlsKey
        \o JSONString(scriptContent) \o ControlsEnd

\* C14: the Component.Set request written for a validated target has exactly
\* the documented params {Name, Controls: [{Name, Value}]}
SetParamsDocumented ==
    \A k \in Written(ComponentSet) :
        \E scriptContent \in Scripts :
            writes[k].data =
                Stringify(ComponentSet, DocumentedSetParams(TargetName, scriptContent),
                          writes[k].id) \o <<NUL>>

\* C15: getComponents returns the list L, in its order, both for the result L
\* and for the result {Components: L}
SameSequenceBothShapes ==
    \A g \in Written(GetComponents) :
        (calls[g].state = "resolved" /\ deploy.components # Undefined) =>
            \A l \in Lists(MaxList) :
                calls[g].value \in {Array(l), Object([Components |-> Array(l)])}
                    => deploy.components = Resolve(Array(l))

\* getComponents has returned two different components in the order of the
\* {Components: [..]} result
BothShapesWitness ==
    /\ deploy.components =
           Resolve(Array(<<Component(OtherName, TargetName, DeviceControllerScript),
                           Component(TargetName, <<97>>, ControlScript2)>>))
    /\ \E g \in Written(GetComponents) : calls[g].value.type = "object"

\* C16: for a result that is neither an array nor an object with an array
\* Components, getComponents returns the empty list and does not fail
UnrecognizedGivesEmpty ==
    \A g \in Written(GetComponents) :
        (/\ calls[g].state = "resolved"
         /\ deploy.components # Undefined
         /\ calls[g].value \in Unrecognized)
            => deploy.components = Resolve(Array(<<>>))

\* the sockets this client created that are connecting or connected
Live == {s \in DOMAIN sockets : sockets[s].state \in {"connecting", "open"}}

\* the connect() calls whose promise is not settled
Outstanding == {s \in DOMAIN sockets : sockets[s].promise = "pending"}

\* C17: at most one socket of the client is connecting or connected, and at
\* most one connect() is outstanding
OneLiveConnection ==
    Cardinality(Live) <= 1 /\ Cardinality(Outstanding) <= 1

\* C18: disconnect() on a client with no socket changes nothing, a second
\* disconnect() leaves what the first one left (the socket destroyed, the
\* handle cleared), and neither throws
DisconnectIdempotent ==
    LET once == Disconnected(sockets, socket)
        twice == Disconnected(once.sockets, once.socket)
    IN  /\ socket = Null => once.sockets = sockets /\ once.socket = socket
        /\ twice.sockets = once.sockets /\ twice.socket = once.socket
        /\ ~once.thrown /\ ~twice.thrown
        /\ once.socket = Null
        /\ socket # Null => once.sockets[socket].state = "destroyed"

\* disconnect() has destroyed a socket that was still connecting, and the
\* client has no socket: the next disconnect() finds the handle cleared
DisconnectTwiceWitness ==
    /\ socket = Null
    /\ \E s \in DOMAIN sockets :
           sockets[s].state = "destroyed" /\ sockets[s].promise = "pending"

\* the calls written to socket s that are not settled
InFlight(s) == {k \in DOMAIN wire : wire[k] = s /\ Pending(k)}

\* socket s was connected, is destroyed without disconnect() (the handle still
\* holds it), and no scan is suspended: nothing the client listens to is left
\* to happen on s
Failed(s) ==
    /\ socket = s
    /\ sockets[s].state = "destroyed"
    /\ sockets[s].promise = "resolved"
    /\ scan = Idle

\* C19: once an established socket has failed, none of the calls written to it
\* is still pending
ErrorFailsInFlight ==
    \A s \in DOMAIN sockets : Failed(s) => InFlight(s) = {}

\* the frame just handed to processMessage was an error response for a
\* registered id
ErrorResponse(e) ==
    e.kind = "callback" /\ JSONparse(e.frame).error = "object"

\* C20: an error response rejects the call with its id and nothing else: every
\* other call keeps its state, every other id stays registered for its call,
\* no socket changes state, the handle and the id counter stay
ErrorRejectsOnlyItsCall ==
    [][ErrorResponse(ev') =>
          /\ \A c \in 1..Len(calls) :
                IF calls[c].id = ev'.id /\ Pending(c)
                  THEN calls'[c].state = "rejected"
                  ELSE calls'[c] = calls[c]
          /\ DOMAIN responseCallbacks' = (DOMAIN responseCallbacks) \ {ev'.id}
          /\ \A i \in DOMAIN responseCallbacks' :
                responseCallbacks'[i] = responseCallbacks[i]
          /\ UNCHANGED <<socket, messageId, writes>>
          /\ \A s \in DOMAIN sockets : sockets'[s].state = sockets[s].state]_vars

\* the error response for the first call has rejected it while the second
\* call is pending and registered on the open connection
ErrorOnlyWitness ==
    /\ ErrorResponse(ev) /\ ev.id = 1
    /\ Len(calls) = 2
    /\ calls[1].state = "rejected"
    /\ Pending(2) /\ 2 \in DOMAIN responseCallbacks
    /\ socket # Null /\ sockets[socket].state = "open"

\* the bytes written so far, in the order of the writes
RECURSIVE Outbound(_)
Outbound(k) == IF k = 0 THEN <<>> ELSE Outbound(k - 1) \o writes[k].data

\* the n-th span of `bytes` that a NUL ends
NulSpan(bytes, n) ==
    LET ends == {i \in 1..Len(bytes) : bytes[i] = NUL}
        nth(m) == CHOOSE i \in ends : Cardinality({j \in ends : j <= i}) = m
    IN  SubSeq(bytes, IF n = 1 THEN 1 ELSE nth(n - 1) + 1, nth(n) - 1)

\* the requests the run has made, by the text of each: method and params
RunRequests ==
    {[method |-> Logon, params |-> LogonParams(Username, Password)],
     [method |-> GetComponents, params |-> NoParams]}
        \cup {[method |-> ComponentSet, params |-> SetParams(TargetName, scriptContent)] :
                 scriptContent \in Scripts}

\* C21: every call that was not rejected at once made one write, the
\* serialized request and one NUL with no LF and no other NUL, so that the
\* n-th request is the n-th NUL-terminated span of the bytes written
OneNulTerminatedWrite ==
    /\ Len(writes) = Len(calls)
    /\ Cardinality({i \in 1..Len(Outbound(Len(writes))) :
                       Outbound(Len(writes))[i] = NUL}) = Len(writes)
    /\ \A i \in 1..Len(Outbound(Len(writes))) : Outbound(Len(writes))[i] # LF
    /\ \A n \in 1..Len(writes) :
          /\ writes[n].id = calls[n].id
          /\ writes[n].data = NulSpan(Outbound(Len(writes)), n) \o <<NUL>>
          /\ \E request \in RunRequests :
                NulSpan(Outbound(Len(writes)), n) =
                    Stringify(request.method, request.params, writes[n].id)

\* the third request of the run, Component.Set with a script that holds a
\* quote, a line feed and a NUL, has been written
NulTerminatedWitness ==
    /\ Len(writes) = 3
    /\ writes[3].data =
           Stringify(ComponentSet, SetParams(TargetName, <<34, 10, 0>>), 3) \o <<NUL>>

\* "name":
Key(name) == Quote \o name \o Quote \o <<58>>

\* the text of the object {<version>: "2.0", method, params, id}
Envelope(version, method, params, id) ==
    <<123>> \o Key(version) \o Quote \o <<50, 46, 48>> \o Quote
        \o Comma \o Key(<<109,101,116,104,111,100>>) \o Quote \o method \o Quote
        \o Comma \o Key(<<112,97,114,97,109,115>>) \o params
        \o Comma \o Key(<<105,100>>) \o Digit(id) \o <<125>>

ProtocolVersion == <<112,114,111,116,111,99,111,108,86,101,114,115,105,111,110>>   \* protocolVersion
Jsonrpc == <<106,115,111,110,114,112,99>>   \* jsonrpc

\* the arguments of the n-th sendCommand call of the run: Logon first when
\* there are credentials, then Component.GetComponents, then Component.Set
Arguments(n) ==
    LET step == IF Authenticates THEN n ELSE n + 1
    IN  IF step = 1 THEN {[method |-> Logon, params |-> LogonParams(Username, Password)]}
        ELSE IF step = 2 THEN {[method |-> GetComponents, params |-> NoParams]}
        ELSE {[method |-> ComponentSet, params |-> SetParams(TargetName, scriptContent)] :
                 scriptContent \in Scripts}

\* every request written is the object with the fields `version`, method,
\* params and id, the n-th with the arguments of the n-th call and the id n
EnvelopeWith(version) ==
    \A n \in 1..Len(writes) :
        /\ writes[n].id = n
        /\ \E request \in Arguments(n) :
              writes[n].data = Envelope(version, request.method, request.params, n) \o <<NUL>>

\* C22 as stated: the envelope has the fields protocolVersion, method, params, id
EnvelopeProtocolVersion == EnvelopeWith(ProtocolVersion)

\* C22: the envelope written by sendCommand is the object with exactly the
\* fields jsonrpc ("2.0"), method, params and id, with the caller's method and
\* params and the id just allocated
EnvelopeJsonrpc == EnvelopeWith(Jsonrpc)

\* Logon, Component.GetComponents and Component.Set have been written
EnvelopeWitness ==
    /\ Len(writes) = 3
    /\ writes[1].data =
           Envelope(Jsonrpc, Logon, LogonParams(Username, Password), 1) \o <<NUL>>
    /\ writes[2].data = Envelope(Jsonrpc, GetComponents, NoParams, 2) \o <<NUL>>

\* the ids that calls have been given so far
Allocated == {calls[c].id : c \in 1..Len(calls)}

\* C23: responseCallbacks holds one pending call per id, the call that was
\* given that id; an id is registered only when no call ever had it; an entry
\* leaves the map only when the response with its id is handed over, and the
\* entries that stay keep their call
PendingMapDiscipline ==
    [][/\ \A i \in DOMAIN responseCallbacks' :
             /\ calls'[responseCallbacks'[i]].id = i
             /\ calls'[responseCallbacks'[i]].state = "pending"
             /\ \A j \in DOMAIN responseCallbacks' :
                   i # j => responseCallbacks'[i] # responseCallbacks'[j]
       /\ \A c \in 1..Len(calls') :
             Cardinality({d \in 1..Len(calls') : calls'[d].id = calls'[c].id}) = 1
       /\ \A i \in (DOMAIN responseCallbacks') \ (DOMAIN responseCallbacks) :
             i \notin Allocated
       /\ \A i \in (DOMAIN responseCallbacks) \ (DOMAIN responseCallbacks') :
             ev'.kind = "callback" /\ ev'.id = i
       /\ \A i \in (DOMAIN responseCallbacks) \cap (DOMAIN responseCallbacks') :
             responseCallbacks'[i] = responseCallbacks[i]]_vars

\* the entry of the first call was removed by its response while the second
\* call, issued while the first was pending, is still registered
PendingMapWitness ==
    /\ ev.kind = "callback" /\ ev.id = 1
    /\ Len(calls) = 2
    /\ DOMAIN responseCallbacks = {2}
    /\ calls[1].invoked = 1

\* the text holds the member "method":
HasMethodField(text) ==
    LET member == Key(<<109,101,116,104,111,100>>)
    IN  \E i \in 1..(Len(text) - Len(member) + 1) :
            SubSeq(text, i, i + Len(member) - 1) = member

\* the frame just handed over was parsed, and `registered` says whether it has
\* an id with a registered call, `notification` whether it counts as one:
\* (1) registered: its call is settled and its entry removed; (2) else a
\* notification; (3) else discarded; (2) and (3) change no call and no entry
ClassifiedBy(notification) ==
    (ev'.op = "frame" /\ ev'.kind \notin {"nonJson", "parseError"}) =>
        LET registered == ev'.id # 0 /\ ev'.id \in DOMAIN responseCallbacks
        IN  /\ registered =>
                 /\ ev'.kind = "callback"
                 /\ calls'[responseCallbacks[ev'.id]].state # "pending"
                 /\ ev'.id \notin DOMAIN responseCallbacks'
            /\ (~registered /\ notification) =>
                 ev'.kind = "unsolicited" /\ UNCHANGED <<calls, responseCallbacks>>
            /\ (~registered /\ ~notification) =>
                 ev'.kind = "ignored" /\ UNCHANGED <<calls, responseCallbacks>>

\* C24 as stated: a message with a method field and no registered id is a
\* notification
ClassifiedByMethodField ==
    [][ClassifiedBy(HasMethodField(ev'.frame))]_vars

\* C24: a message with a registered id settles that call even if it has a
\* method; otherwise it is a notification if its method is truthy (present and
\* not empty), and otherwise it is discarded; the last two change no call and
\* no pending entry
ClassifiedByTruthyMethod ==
    [][ClassifiedBy(JSONparse(ev'.frame).method # "")]_vars

\* {"method":"S","id":1} has settled the first call
MethodWithIdWitness ==
    /\ ev.kind = "callback"
    /\ ev.frame = NotifyIdText(1)
    /\ calls[1].state = "resolved"

\* the text of the object {User, Password}
Credentials(username, password) ==
    <<123>> \o Key(<<85,115,101,114>>) \o Quote \o username \o Quote
        \o Comma \o Key(<<80,97,115,115,119,111,114,100>>) \o Quote \o password \o Quote
        \o <<125>>

\* C25: login writes one Logon request with the params {User, Password}, none
\* when the client has no socket; when the request has failed, with the
\* core's error or because the client is not connected, login has failed with
\* "Authentication failed" followed by that error, and no other Logon request
\* was written
LoginOnceWrapped ==
    /\ Cardinality(Written(Logon)) = IF deploy.pc = "none" \/ deploy.call = 0 THEN 0 ELSE 1
    /\ \A k \in Written(Logon) :
          /\ k = deploy.call
          /\ writes[k].data =
                 Envelope(Jsonrpc, Logon, Credentials(Username, Password), writes[k].id)
                     \o <<NUL>>
    /\ deploy.pc = "done" =>
          LET request == Awaited(deploy.call)
          IN  /\ request.state # "pending"
              /\ request.state = "resolved" => deploy.login = Resolve(Undefined)
              /\ request = Reject("E") =>
                     deploy.login = Reject("Authentication failed: Error: E")
              /\ request = Reject("Unknown error") =>
                     deploy.login = Reject("Authentication failed: Error: Unknown error")
              /\ request = Reject("Not connected to Q-SYS Core") =>
                     deploy.login =
                         Reject("Authentication failed: Error: Not connected to Q-SYS Core")
              /\ request.state = "rejected" => deploy.login.state = "rejected"

\* login has failed on the core's error for its request
LoginRemoteErrorWitness ==
    /\ deploy.pc = "done"
    /\ deploy.call = 1
    /\ deploy.login = Reject("Authentication failed: Error: E")
    /\ Cardinality(Written(Logon)) = 1

\* the control "code" is absent from a result: no Controls that is a list, or
\* no entry of the list is an object with the Name "code"
CodeAbsent(result) ==
    \/ result.type # "object"
    \/ "Controls" \notin DOMAIN result.fields
    \/ result.fields.Controls.type # "array"
    \/ \A i \in 1..Len(result.fields.Controls.items) :
          LET entry == result.fields.Controls.items[i]
          IN  ~(/\ entry.type = "object"
                /\ "Name" \in DOMAIN entry.fields
                /\ entry.fields.Name = String(CodeName))

\* C26: when the Component.Get call has succeeded and the control "code" is
\* absent from its result, getScript returns '', and getScript fails only when
\* the call has failed
AbsentGivesEmpty ==
    deploy.pc = "done" =>
        LET request == Awaited(deploy.call)
        IN  /\ (request.state = "resolved" /\ CodeAbsent(request.value)) =>
                   deploy.script = Resolve(String(<<>>))
            /\ deploy.script.state = "rejected" => request.state = "rejected"

\* C27: validation accepts exactly when the first component of the
\* enumeration whose Name or ID is the target has an allowed Type, whatever the
\* components behind it are
FirstMatchDecides ==
    [][(deploy.pc = "validate" /\ deploy'.pc # "validate") =>
          ((deploy'.pc = "open") <=>
              (/\ deploy'.components.state = "resolved"
               /\ FirstMatchAllowed(deploy'.components.value)))]_vars

\* the target was rejected for the type of the first match although the
\* second component matches too and has an allowed type
FirstMatchWitness ==
    /\ deploy.pc = "done"
    /\ deploy.returned = "false"
    /\ deploy.components =
           Resolve(Array(<<Component(TargetName, <<98>>, OtherType),
                           Component(OtherName, TargetName, DeviceControllerScript)>>))

\* some component of the result matches the target
SomeMatch(result) ==
    \E i \in 1..Len(Enumerated(result)) : IsTarget(Enumerated(result)[i])

\* what validateComponent returns to deployScript for a list of components
Returns(items) == validateComponent(TargetName, Resolve(Array(items)))

\* for the list getComponents has returned, what is shown tells valid, not
\* found and wrong type apart: nothing, 'not found', 'is not a valid script
\* component type'
DistinctlyShown ==
    deploy.components.state = "resolved" =>
        LET result == deploy.components.value
        IN  /\ deploy.shown = "none" <=> FirstMatchAllowed(result)
            /\ deploy.shown = "not found" <=> ~SomeMatch(result)
            /\ deploy.shown = "is not a valid script component type" <=>
                   (SomeMatch(result) /\ ~FirstMatchAllowed(result))

\* C28 as stated: the two failures are shown as different conditions and the
\* caller of validateComponent gets different values for them
DistinctFailuresToCaller ==
    deploy.pc \in {"open", "set", "done"} /\ deploy.components # Undefined =>
        /\ DistinctlyShown
        /\ deploy.shown = "is not a valid script component type" =>
               Returns(deploy.components.value.items) # Returns(<<>>)

\* C28: for every list of components exactly one of valid, not found and wrong
\* type holds and is what validateComponent shows to the user, with a message
\* of its own for each failure; to its caller it returns true when valid and
\* false for both failures alike
DistinctFailuresShown ==
    deploy.pc \in {"open", "set", "done"} /\ deploy.components # Undefined =>
        /\ DistinctlyShown
        /\ deploy.components.state = "resolved" =>
              /\ Returns(deploy.components.value.items) = (deploy.shown = "none")
              /\ deploy.shown # "none" => Returns(deploy.components.value.items) = Returns(<<>>)

\* the only match has another type: that is shown, and false is returned as
\* for no match
WrongTypeWitness ==
    /\ deploy.pc = "done"
    /\ deploy.returned = "false"
    /\ deploy.shown = "is not a valid script component type"
    /\ deploy.components = Resolve(Array(<<Component(TargetName, <<98>>, OtherType)>>))

\* C29: while a scan of a connection's buffer is suspended no other scan
\* starts, and no frame is handed over from a connection that disconnect()
\* has closed
OneScanNoneAfterDisconnect ==
    [][/\ (scan # Idle /\ scan' # Idle /\ scan' # scan) =>
             scan'.sock = scan.sock /\ Len(scan'.rest) < Len(scan.rest)
       /\ (scan # Idle /\ ev'.op = "frame") =>
             sockets[scan.sock].state # "destroyed"]_vars

\* the step is disconnect() on socket s
Disconnects(s) == socket = s /\ socket' = Null

\* C30: the promise of connect() is settled once and for all: it is resolved
\* in the step in which the socket becomes connected, it is rejected in the
\* step in which the socket fails while connecting, and once settled it never
\* changes, also not when the connected socket fails
ConnectSettlesOnce ==
    [][\A s \in DOMAIN sockets :
          /\ sockets[s].promise # "pending" => sockets'[s].promise = sockets[s].promise
          /\ sockets'[s].promise = "resolved" <=>
                 (sockets[s].promise = "resolved"
                    \/ (sockets[s].state = "connecting" /\ sockets'[s].state = "open"))
          /\ sockets'[s].promise = "rejected" <=>
                 (sockets[s].promise = "rejected"
                    \/ (/\ sockets[s].state = "connecting"
                        /\ sockets'[s].state = "destroyed"
                        /\ ~Disconnects(s)))]_vars

\* the connected socket has failed, or was closed by the peer, and the promise
\* of its connect() is still the resolved one
ErrorAfterResolveWitness ==
    \E s \in DOMAIN sockets :
        /\ socket = s
        /\ sockets[s].state = "destroyed"
        /\ sockets[s].promise = "resolved"

\* ------------------------------------------------------------ auto-deploy on save

\* the most script mappings one core holds
MaxScripts == 2

\* vscode.workspace.asRelativePath with the workspace folder /ws: a path inside
\* the folder loses the folder's prefix, any other path is returned as it is
asRelativePath(path) ==
    IF path = "/ws/main.lua" THEN "main.lua" ELSE path

\* the optional autoDeployOnSave of a ScriptMapping: absent, true or false
OptionalBoolean == {"undefined", "true", "false"}

ScriptMapping ==
    [filePath : {"/ws/main.lua", "other.lua"}, componentName : {"Script"},
     autoDeployOnSave : OptionalBoolean]

RECURSIVE ScriptLists(_)
ScriptLists(n) ==
    IF n = 0 THEN {<<>>}
    ELSE ScriptLists(n - 1) \cup
         {Append(l, m) : l \in {k \in ScriptLists(n - 1) : Len(k) = n - 1},
                         m \in ScriptMapping}

QSysCore(name, scripts) == [name |-> name, scripts |-> scripts]

\* the settings' cores: none, one, or two
CoreLists ==
    {<<>>}
    \cup {<<QSysCore("Main", s)>> : s \in ScriptLists(MaxScripts)}
    \cup {<<QSysCore("Main", s), QSysCore("Spare", t)>> :
            s \in ScriptLists(MaxScripts), t \in ScriptLists(MaxScripts)}

\* findScriptMapping: the first mapping, in the order of the cores and of each
\* core's scripts, whose normalized path is the file's; Undefined if none
RECURSIVE findInScripts(_, _, _)
findInScripts(filePath, core, n) ==
    IF n > Len(core.scripts) THEN Undefined
    ELSE IF asRelativePath(filePath) = asRelativePath(core.scripts[n].filePath)
           THEN [type |-> "found", core |-> core.name, mapping |-> core.scripts[n]]
           ELSE findInScripts(filePath, core, n + 1)

RECURSIVE findInCores(_, _, _)
findInCores(filePath, cores, n) ==
    IF n > Len(cores) THEN Undefined
    ELSE LET found == findInScripts(filePath, cores[n], 1)
         IN  IF found # Undefined THEN found
             ELSE findInCores(filePath, cores, n + 1)

findScriptMapping(filePath, cores) == findInCores(filePath, cores, 1)

\* the global setting decides also when the mapping says false
autoDeployForScriptEither(mapping, autoDeployOnSave) ==
    mapping.autoDeployOnSave = "true" \/ autoDeployOnSave

\* autoDeployForScript: the mapping's own value if it has one, else the global one
autoDeployForScript(mapping, autoDeployOnSave) ==
    IF mapping.autoDeployOnSave # "undefined"
      THEN mapping.autoDeployOnSave = "true"
      ELSE autoDeployOnSave

\* the calls of deployScript one save of the document makes
Deployments(languageId, fsPath, settings) ==
    IF languageId # "lua" THEN <<>>
    ELSE LET scriptMapping == findScriptMapping(fsPath, settings.cores)
         IN  IF scriptMapping = Undefined THEN <<>>
             ELSE IF autoDeployForScript(scriptMapping.mapping, settings.autoDeployOnSave)
                    THEN <<[filePath |-> fsPath, core |-> scriptMapping.core,
                            componentName |-> scriptMapping.mapping.componentName]>>
                    ELSE <<>>

\* the saved documents
LanguageIds == {"lua", "json"}
FsPaths == {"main.lua", "/ws/main.lua", "other.lua", "/ws/none.lua"}

\* onDidSaveTextDocument fires for a document
onSaveHandler(languageId, fsPath) ==
    /\ host.pc = "settings"
    /\ host' = [host EXCEPT !.pc = "saved", !.languageId = languageId, !.fsPath = fsPath,
                            !.started = Deployments(languageId, fsPath, host)]
    /\ UNCHANGED <<sockets, socket, responseCallbacks, messageId, calls, writes, scan,
                   ev, input, stream, emitted, wire, deploy>>

SaveInit ==
    /\ sockets = <<>>
    /\ socket = Null
    /\ responseCallbacks = <<>>
    /\ messageId = 1
    /\ calls = <<>>
    /\ writes = <<>>
    /\ scan = Idle
    /\ ev = NoEvent
    /\ input = <<>>
    /\ stream = <<>>
    /\ emitted = <<>>
    /\ wire = <<>>
    /\ deploy = NoDeploy
    /\ host \in {[NoHost EXCEPT !.pc = "settings", !.autoDeployOnSave = b, !.cores = c] :
                   b \in BOOLEAN, c \in CoreLists}

SaveNext == \E languageId \in LanguageIds, fsPath \in FsPaths : onSaveHandler(languageId, fsPath)

SaveSpec == SaveInit /\ [][SaveNext]_vars

\* the mappings of the settings whose path is the document's, as <<core, script>>
\* positions
MappingsFor(fsPath) ==
    {p \in (1..Len(host.cores)) \X (1..MaxScripts) :
        /\ p[2] <= Len(host.cores[p[1]].scripts)
        /\ asRelativePath(host.cores[p[1]].scripts[p[2]].filePath) = asRelativePath(fsPath)}

\* the one of them that comes first in the settings
FirstMappingFor(fsPath) ==
    CHOOSE p \in MappingsFor(fsPath) :
        \A q \in MappingsFor(fsPath) : p[1] < q[1] \/ (p[1] = q[1] /\ p[2] <= q[2])

\* auto-deploy is enabled for the mapping at position p
EnabledFor(p) ==
    LET own == host.cores[p[1]].scripts[p[2]].autoDeployOnSave
    IN  \/ own = "true"
        \/ own = "undefined" /\ host.autoDeployOnSave

AfterLastDelimiter(bytes) ==
    LET at == {i \in 1..Len(bytes) : bytes[i] \in {NUL, LF}}
    IN  IF at = {} THEN bytes
        ELSE SubSeq(bytes, (CHOOSE i \in at : \A j \in at : j <= i) + 1, Len(bytes))

\* the chunk a receive step takes from the stream
Chunk == SubSeq(stream, 1, Len(stream) - Len(stream'))

\* C32: once a receive event has been fully processed the retained buffer is
\* exactly the bytes received after the last delimiter, it holds no 0x00 and no
\* 0x0A byte, and a chunk without a delimiter is only appended to it and emits
\* no frame
RetainedIsTail ==
    [][/\ scan' = Idle =>
            /\ sockets'[1].rawBuffer = AfterLastDelimiter(SubSeq(input, 1, Len(input) - Len(stream')))
            /\ \A i \in 1..Len(sockets'[1].rawBuffer) : sockets'[1].rawBuffer[i] \notin {NUL, LF}
       /\ (scan = Idle /\ stream' # stream /\ \A i \in 1..Len(Chunk) : Chunk[i] \notin {NUL, LF}) =>
            /\ scan' = Idle
            /\ sockets'[1].rawBuffer = sockets[1].rawBuffer \o Chunk
            /\ emitted' = emitted]_vars

\* a partial frame is retained after a frame was emitted from the same stream,
\* and the stream so far ends with the retained bytes
RetainedWitness ==
    /\ scan = Idle
    /\ emitted # <<>>
    /\ Len(sockets[1].rawBuffer) > 1
    /\ Len(Delivered) > Len(sockets[1].rawBuffer) + 1

\* ------------------------------------------------------------ reconnecting

\* the most bytes one connection receives
MaxBytes == 3

\* the chunks the peer sends: an opened frame, a delimiter, and a frame followed
\* by the start of the next
Fragments == {<<123>>, <<NUL>>, <<123, NUL, 123>>}

ReconnectInit ==
    /\ sockets = <<>>
    /\ socket = Null
    /\ responseCallbacks = <<>>
    /\ messageId = 1
    /\ calls = <<>>
    /\ writes = <<>>
    /\ scan = Idle
    /\ ev = NoEvent
    /\ input = <<>>
    /\ stream = <<>>
    /\ emitted = <<>>
    /\ wire = <<>>
    /\ deploy = NoDeploy
    /\ host = NoHost

\* connect(); input and emitted hold, per socket, the bytes received on it and
\* the frames its scans handed to processMessage
ReconnectConnect ==
    /\ connect
    /\ input' = Append(input, <<>>)
    /\ emitted' = Append(emitted, <<>>)
    /\ UNCHANGED <<stream, wire, deploy, host>>

ReconnectReceive(s, data) ==
    /\ Len(input[s]) + Len(data) <= MaxBytes
    /\ OnData(s, data)
    /\ input' = [input EXCEPT ![s] = @ \o data]
    /\ emitted' = [emitted EXCEPT ![s] = @ \o Handed(sockets[s].rawBuffer \o data)]
    /\ UNCHANGED <<socket, messageId, writes, stream, wire, deploy, host>>

ReconnectResume ==
    /\ OnResume
    /\ emitted' = [emitted EXCEPT ![scan.sock] = @ \o Handed(scan.rest)]
    /\ UNCHANGED <<socket, messageId, writes, input, stream, wire, deploy, host>>

ReconnectNext ==
    \/ ReconnectConnect
    \/ disconnect /\ UNCHANGED <<input, stream, emitted, wire, deploy, host>>
    \/ \E s \in DOMAIN sockets : OnConnect(s) /\ UNCHANGED <<input, stream, emitted, wire, deploy, host>>
    \/ \E s \in DOMAIN sockets, data \in Fragments : ReconnectReceive(s, data)
    \/ ReconnectResume

ReconnectSpec == ReconnectInit /\ [][ReconnectNext]_vars

\* C33: the framer restarts with every connect(): a new connection starts with
\* an empty buffer, and what a connection retains and the frames it yields are
\* those of the bytes received on that connection alone, whatever partial
\* frame an earlier connection was left with
FramerPerConnection ==
    \A s \in DOMAIN sockets :
        /\ sockets[s].state = "connecting" => sockets[s].rawBuffer = <<>>
        /\ scan.sock # s =>
              /\ sockets[s].rawBuffer = AfterLastDelimiter(input[s])
              /\ emitted[s] = SingleChunk(input[s])

\* the first connection was left with a partial frame and the second one has
\* yielded a frame
LeftoverWitness ==
    /\ Len(sockets) > 1
    /\ sockets[1].state = "destroyed"
    /\ sockets[1].rawBuffer # <<>>
    /\ scan = Idle
    /\ emitted[Len(sockets)] # <<>>

\* call c is a Component.Set request of this client that was written
IsSetCall(c) ==
    /\ c \in DOMAIN calls
    /\ \E k \in DOMAIN writes :
          writes[k].id = calls[c].id /\ IsRequest(writes[k], ComponentSet)

\* deployScript returns true only when the response to its Component.Set
\* request was received and was no error; when the run ends after a failed
\* connect, a failed login, a failed validation, an unreadable document or an
\* error response to Component.Set, it returns false
SuccessOnlyIfConfirmed ==
    [][/\ \A c \in DOMAIN calls :
            (IsSetCall(c) /\ calls[c].state = "pending" /\ calls'[c].state = "resolved") =>
                /\ ev'.kind = "callback"
                /\ ev'.id = calls[c].id
                /\ JSONparse(ev'.frame).error # "object"
       /\ (deploy.pc # "done" /\ deploy'.pc = "done") =>
            /\ deploy'.returned \in {"true", "false"}
            /\ deploy'.returned = "true" <=>
                  /\ deploy.pc = "set"
                  /\ IsSetCall(deploy.call)
                  /\ calls[deploy.call].state = "resolved"
       /\ deploy.pc = "done" => deploy'.returned = deploy.returned]_vars

\* deployScript's continuations and the suspended scan are run when they can be
DeployFairSpec ==
    /\ DeploySpec
    /\ WF_vars(DeployStart) /\ WF_vars(AfterConnect) /\ WF_vars(AfterLogin)
    /\ WF_vars(AfterValidate) /\ WF_vars(AfterOpen) /\ WF_vars(AfterSet)
    /\ WF_vars(Resume)

\* the connection of the run is lost while the run waits for a response
ConnectionLost ==
    /\ deploy.pc \in {"login", "validate", "set"}
    /\ socket # Null
    /\ sockets[socket].state = "destroyed"

\* C34: deployScript reports success only for a write the core confirmed, and
\* a transport failure always makes the run report failure
FailureAlwaysReported ==
    /\ SuccessOnlyIfConfirmed
    /\ ConnectionLost ~> (deploy.returned = "false")

\* the core of the run has a username and a password: both are set and not empty
HasUsernameAndPassword ==
    /\ deploy.username # Undefined /\ deploy.username.chars # <<>>
    /\ deploy.password # Undefined /\ deploy.password.chars # <<>>

\* the methods of the requests of a run, in order
Sequence ==
    (IF HasUsernameAndPassword THEN <<Logon>> ELSE <<>>) \o <<GetComponents, ComponentSet>>

\* the call whose request is the k-th write
CallOf(k) == CHOOSE c \in DOMAIN calls : calls[c].id = writes[k].id

\* C35: the requests of one deployScript run are Logon (if and only if the
\* core has a username and a password), Component.GetComponents and
\* Component.Set, in this order, each written only after the response to the
\* one before it was received; after a failed Logon nothing more is written
FixedRequestOrder ==
    /\ Len(writes) <= Len(Sequence)
    /\ \A k \in DOMAIN writes :
          /\ IsRequest(writes[k], Sequence[k])
          /\ k > 1 => calls[CallOf(k - 1)].state = "resolved"
    /\ (writes # <<>> /\ IsRequest(writes[1], Logon) /\ calls[CallOf(1)].state = "rejected") =>
          Len(writes) = 1

\* a run with a username and a password has written all three requests
ThreeRequestsWitness ==
    /\ HasUsernameAndPassword
    /\ Len(writes) = 3
    /\ IsRequest(writes[3], ComponentSet)

\* C36: whenever deployScript has returned, true or false and by whatever
\* path, its client is disconnected: the socket it created is destroyed and
\* the handle is null
ReturnedDisconnected ==
    deploy.pc = "done" =>
        /\ deploy.returned \in {"true", "false"}
        /\ socket = Null
        /\ sockets # <<>>
        /\ \A s \in DOMAIN sockets : sockets[s].state = "destroyed"

\* the run returned false from its catch block after login() threw
CaughtLoginWitness ==
    /\ deploy.pc = "done"
    /\ deploy.returned = "false"
    /\ Len(writes) = 1
    /\ IsRequest(writes[1], Logon)
    /\ calls[1].state = "rejected"
    /\ socket = Null

\* ------------------------------------------------------------ rejected sends

\* the most calls of sendCommand in one run
MaxAttempts == 4

\* a call of sendCommand; stream holds, per call, the id it was given, or 0 if
\* it was rejected for want of a socket
Attempt(request) ==
    /\ Len(stream) < MaxAttempts
    /\ Call(request)
    /\ stream' = Append(stream, IF socket = Null THEN 0 ELSE messageId)
    /\ UNCHANGED <<input, emitted, wire, deploy, host>>

AttemptNext ==
    \/ connect /\ UNCHANGED <<input, stream, emitted, wire, deploy, host>>
    \/ disconnect /\ UNCHANGED <<input, stream, emitted, wire, deploy, host>>
    \/ \E request \in Requests : Attempt(request)
    \/ \E s \in DOMAIN sockets : OnConnect(s) /\ UNCHANGED <<input, stream, emitted, wire, deploy, host>>
    \/ \E s \in DOMAIN sockets : OnError(s) /\ UNCHANGED <<input, stream, emitted, wire, deploy, host>>

AttemptSpec == Init /\ [][AttemptNext]_vars

\* the ids given out so far, in order
RECURSIVE Given(_)
Given(log) ==
    IF log = <<>> THEN <<>>
    ELSE IF Head(log) = 0 THEN Given(Tail(log)) ELSE <<Head(log)>> \o Given(Tail(log))

\* C37: a sendCommand that fails because the client has no socket changes
\* nothing: it takes no id, so the calls that succeed are numbered 1, 2, ..
\* as if it had not been made, and it registers no pending call
RejectedSendNoEffect ==
    [][/\ (Len(stream') > Len(stream) /\ stream'[Len(stream')] = 0) =>
            UNCHANGED <<sockets, socket, responseCallbacks, messageId, calls, writes, scan>>
       /\ Given(stream') = [i \in 1..Len(Given(stream')) |-> i]
       /\ messageId' = Len(Given(stream')) + 1]_vars

\* a call was rejected while an earlier call was pending, and a later call
\* succeeded
RejectedBetweenWitness ==
    /\ Len(stream) > 2
    /\ stream[1] # 0
    /\ stream[2] = 0
    /\ stream[3] # 0
    /\ 1 \in DOMAIN responseCallbacks

\* the requests written to which no response has been handled yet
Unanswered ==
    {k \in DOMAIN writes :
        \E c \in DOMAIN calls : calls[c].id = writes[k].id /\ calls[c].state = "pending"}

\* C38: every id registered in the pending map was issued earlier by this
\* client, so it lies in 1..messageId-1, and there are never more pending calls
\* than requests written and not yet answered
PendingIdsIssued ==
    /\ \A id \in DOMAIN responseCallbacks : id \in 1..(messageId - 1)
    /\ Cardinality(DOMAIN responseCallbacks) <= Cardinality(Unanswered)

\* one request was answered and the next one is pending
SecondPendingWitness ==
    /\ messageId = 3
    /\ DOMAIN responseCallbacks = {2}
    /\ calls[1].state = "resolved"

\* ------------------------------------------------------------ deploy current script

\* the most (core, component) pairs selected for one command
MaxPairs == 2

\* the cores of the selected pairs: without and with credentials
SelectedCores ==
    {[username |-> Undefined, password |-> Undefined],
     [username |-> String(Username), password |-> String(Password)]}

\* deployTargets flattened to the pairs the two for loops visit, in order
RECURSIVE DeployTargets(_)
DeployTargets(n) ==
    IF n = 0 THEN {<<>>}
    ELSE DeployTargets(n - 1) \cup
         {Append(l, c) : l \in {k \in DeployTargets(n - 1) : Len(k) = n - 1},
                         c \in SelectedCores}

\* mutant: any success is shown as a success on all targets
SummaryBySuccess(successCount, failCount) ==
    IF successCount > 0 THEN "all"
    ELSE IF failCount > 0 THEN "failed"
    ELSE "none attempted"

\* the message shown after the loops
Summary(successCount, failCount) ==
    IF successCount > 0 /\ failCount = 0 THEN "all"
    ELSE IF successCount > 0 /\ failCount > 0 THEN "partial"
    ELSE IF successCount = 0 /\ failCount > 0 THEN "failed"
    ELSE "none attempted"

\* the for loops of the command, from their start or from the return of the
\* awaited deployScript: count its result, then either call deployScript for
\* the next pair, which makes a new QrcClient and runs up to await
\* client.connect(), or leave the loops and show the summary
deployCurrentScriptCommand ==
    /\ host.pc = "loop"
    /\ deploy.pc \in {"none", "done"}
    /\ LET successCount == IF deploy.returned = "true" THEN host.successCount + 1
                                                       ELSE host.successCount
           failCount == IF deploy.returned = "false" THEN host.failCount + 1
                                                      ELSE host.failCount
           next == Len(host.started) + 1
       IN  IF next <= Len(host.pairs)
             THEN /\ sockets' = <<NewSocket>>
                  /\ socket' = 1
                  /\ responseCallbacks' = <<>>
                  /\ messageId' = 1
                  /\ calls' = <<>>
                  /\ writes' = <<>>
                  /\ scan' = Idle
                  /\ ev' = NoEvent
                  /\ deploy' = [NoDeploy EXCEPT !.pc = "connect",
                                                !.username = host.pairs[next].username,
                                                !.password = host.pairs[next].password]
                  /\ host' = [host EXCEPT !.started = Append(@, next),
                                          !.successCount = successCount,
                                          !.failCount = failCount]
             ELSE /\ host' = [host EXCEPT !.pc = "summary",
                                          !.successCount = successCount,
                                          !.failCount = failCount,
                                          !.summary = Summary(successCount, failCount)]
                  /\ deploy' = NoDeploy
                  /\ ev' = NoEvent
                  /\ UNCHANGED <<sockets, socket, responseCallbacks, messageId, calls,
                                 writes, scan>>
    /\ UNCHANGED <<input, stream, emitted, wire>>

\* what the core sends: for a request that is not answered yet, a list with the
\* target as a script component, or an error
CommandChunks ==
    {t \o <<NUL>> :
        t \in {ReplyText(i, Array(<<Component(TargetName, <<97>>, ControlScript2)>>)) :
                  i \in DOMAIN responseCallbacks}
                \cup {ErrorMsgText(i) : i \in DOMAIN responseCallbacks}}

CommandReceive ==
    \E s \in DOMAIN sockets : \E data \in CommandChunks :
        /\ OnData(s, data)
        /\ UNCHANGED <<socket, messageId, writes, input, stream, emitted, wire, deploy, host>>

CommandInit ==
    /\ sockets = <<>>
    /\ socket = Null
    /\ responseCallbacks = <<>>
    /\ messageId = 1
    /\ calls = <<>>
    /\ writes = <<>>
    /\ scan = Idle
    /\ ev = NoEvent
    /\ input = <<>>
    /\ stream = <<>>
    /\ emitted = <<>>
    /\ wire = <<>>
    /\ deploy = NoDeploy
    /\ host \in {[NoHost EXCEPT !.pc = "loop", !.pairs = p] : p \in DeployTargets(MaxPairs)}

CommandNext ==
    \/ deployCurrentScriptCommand
    \/ AfterConnect
    \/ AfterLogin
    \/ AfterValidate
    \/ AfterOpen
    \/ AfterSet
    \/ \E s \in DOMAIN sockets : OnConnect(s) /\ UNCHANGED <<input, stream, emitted, wire, deploy, host>>
    \/ \E s \in DOMAIN sockets : OnError(s) /\ UNCHANGED <<input, stream, emitted, wire, deploy, host>>
    \/ CommandReceive
    \/ Resume

CommandSpec == CommandInit /\ [][CommandNext]_vars

\* C39: the deployments of the command run one after another: deployScript is
\* called for the next pair only when the one before it has returned and its
\* client is disconnected; at the end successCount + failCount is the number of
\* pairs attempted and the summary is the one the two counts select
OneAfterAnother ==
    [][/\ (Len(host'.started) > Len(host.started) /\ host.started # <<>>) =>
            /\ deploy.pc = "done"
            /\ deploy.returned \in {"true", "false"}
            /\ socket = Null
            /\ \A s \in DOMAIN sockets : sockets[s].state = "destroyed"
       /\ Len(host'.started) <= Len(host.started) + 1
       /\ host'.successCount + host'.failCount =
              Len(host'.started) - (IF deploy'.pc = "none" THEN 0 ELSE 1)
       /\ host'.pc = "summary" =>
            /\ host'.successCount + host'.failCount = Len(host'.pairs)
            /\ Len(host'.started) = Len(host'.pairs)
            /\ host'.summary = "all" <=> host'.successCount > 0 /\ host'.failCount = 0
            /\ host'.summary = "partial" <=> host'.successCount > 0 /\ host'.failCount > 0
            /\ host'.summary = "failed" <=> host'.successCount = 0 /\ host'.failCount > 0
            /\ host'.summary = "none attempted" <=> host'.successCount = 0 /\ host'.failCount = 0]_vars

\* the command ended after one deployment that succeeded and one that failed
PartialWitness ==
    /\ host.pc = "summary"
    /\ host.successCount = 1
    /\ host.failCount = 1
    /\ host.summary = "partial"

====
